---- MODULE Spec2Model ----
(***************************************************************************)
(* HydraLance: the YAML workspace indexer and the reverse path index that  *)
(* resolve ${a.b.c} interpolations (YamlWorkspaceIndexer, ReversePathIndex *)
(* and YamlStructureParser of the extension).                              *)
(*                                                                         *)
(* Strings.  The index keys are built with path.join('.') and the query    *)
(* is cut with split('.'), so a string is modelled by the sequence of its  *)
(* '.'-free segments: "lr" is <<"lr">>, "db.lr" is <<"db", "lr">>, the     *)
(* empty string is <<"">>.  This encoding is one-to-one, s.split('.') is   *)
(* the encoding itself and join('.') of a list of strings is the           *)
(* concatenation of their encodings.                                       *)
(***************************************************************************)
EXTENDS Naturals, Sequences, FiniteSets, Bags, TLC

VARIABLES
    fs,        \* the workspace on disk: file URI -> its text, or Absent
    watching,  \* the FileSystemWatcher of initialize() is registered
    events,    \* watcher notifications not yet delivered, in arrival order
    tasks,     \* bag of indexFile() calls suspended at `await openTextDocument`
    scans,     \* scanWorkspace() calls: sequence of their positions
    index,     \* this.index: [reverseIndex, fileIndex] of ReversePathIndex
    inputs,    \* number of writes, deletions and refreshes so far (the bound)
    activation,\* activate(): its position and what it has registered
    helpers,   \* PythonHelperDocument: the static counter, the instances, the
               \* shadow documents that exist
    lint,      \* activateHydraLinting(): open documents, debounce timers,
               \* the diagnostic collection
    last       \* the handler step that ran last: [op, uri]

vars == <<fs, watching, events, tasks, scans, index, inputs, activation,
          helpers, lint, last>>

----------------------------------------------------------------------------
(* Bounds of the model *)

MaxInputs == 2     \* file writes, file deletions and refresh commands in a run

MaxOps == 4        \* addDefinition and removeFile calls made on the index alone

----------------------------------------------------------------------------
(* The corpus: documents, their texts, and the queries *)

Absent == "absent"

UriConfDb == "file:///w/conf/db.yaml"
UriDb     == "file:///w/db.yaml"

Files == {UriConfDb, UriDb}

\* A second document at the root of the workspace, beside db.yaml
UriModel == "file:///w/model.yaml"

SiblingFiles == {UriDb, UriModel}

\* The same workspace with a virtual environment in it: .venv/db.yaml and
\* .venv/lib/db.yaml beside db.yaml
UriVenv    == "file:///w/.venv/db.yaml"
UriVenvLib == "file:///w/.venv/lib/db.yaml"

VenvFiles == {UriDb, UriVenv, UriVenvLib}

\* A second workspace, of two folders, file:///a and file:///b, and a document
\* that lies in no folder of it
UriAConf == "file:///a/conf/db.yaml"
UriA     == "file:///a/db.yaml"
UriB     == "file:///b/db.yaml"
UriLoose == "file:///tmp/notes.yaml"

\* A document two directories below the root of the first workspace
UriName == "file:///w/a/b/name.yaml"

RootFiles == {UriAConf, UriA, UriB}

NoFolder == "undefined"

\* vscode.workspace.getWorkspaceFolder(uri)?.uri.toString()
GetWorkspaceFolder(uri) ==
    CASE uri \in {UriConfDb, UriDb, UriModel, UriVenv, UriVenvLib, UriName}
                                    -> "file:///w"
      [] uri \in {UriAConf, UriA}   -> "file:///a"
      [] uri = UriB                 -> "file:///b"
      [] OTHER                      -> NoFolder

\* vscode.workspace.asRelativePath(uri), as the list of its '/'-separated
\* segments, each segment a string in the encoding above.  In a workspace of
\* several folders the name of the folder is prepended.  For a document that
\* lies in no workspace folder the input comes back: its absolute path,
\* /tmp/notes.yaml, whose first segment is the empty string.
AsRelativePath(uri) ==
    CASE uri = UriConfDb -> << <<"conf">>, <<"db", "yaml">> >>
      [] uri = UriDb     -> << <<"db", "yaml">> >>
      [] uri = UriModel  -> << <<"model", "yaml">> >>
      [] uri = UriVenv   -> << <<"", "venv">>, <<"db", "yaml">> >>
      [] uri = UriVenvLib -> << <<"", "venv">>, <<"lib">>, <<"db", "yaml">> >>
      [] uri = UriAConf  -> << <<"a">>, <<"conf">>, <<"db", "yaml">> >>
      [] uri = UriA      -> << <<"a">>, <<"db", "yaml">> >>
      [] uri = UriB      -> << <<"b">>, <<"db", "yaml">> >>
      [] uri = UriName   -> << <<"a">>, <<"b">>, <<"name", "yaml">> >>
      [] uri = UriLoose  -> << <<"">>, <<"tmp">>, <<"notes", "yaml">> >>

\* The URIs of the two workspaces in the order of localeCompare, which on
\* these lower-case strings is also the order of their code units
UriOrder == <<UriAConf, UriA, UriB, UriLoose, UriVenv, UriVenvLib, UriName,
             UriConfDb, UriDb, UriModel>>

\* a.toString().localeCompare(b.toString()) < 0, for the URIs of the corpus
UriBefore(a, b) ==
    \E i, j \in 1..Len(UriOrder) : i < j /\ UriOrder[i] = a /\ UriOrder[j] = b

\* One line of text, as the parser's regular expressions see it:
\*   kind "blank"   : !trimmed
\*   kind "comment" : trimmed.startsWith('#')
\*   kind "plain"   : no match of /^(\s*)([^:]+):\s*(.*)/
\*   kind "key"     : a match; indent is the width of the leading white space,
\*                    key is keyMatch[2].trim(), value is keyMatch[3].trim()
KeyLine(n, k, v) == [kind |-> "key", indent |-> n, key |-> k, value |-> v]
BlankLine        == [kind |-> "blank", indent |-> 0, key |-> <<"">>, value |-> <<"">>]
CommentLine      == [kind |-> "comment", indent |-> 0, key |-> <<"">>, value |-> <<"">>]
PlainLine        == [kind |-> "plain", indent |-> 0, key |-> <<"">>, value |-> <<"">>]

\* # optimizer          db:          (blank)        lr: 2        - item
\*   lr: 1   is nested under db
TextDbLr == << CommentLine,
               KeyLine(0, <<"db">>, <<"">>),
               KeyLine(2, <<"lr">>, <<"1">>),
               BlankLine,
               KeyLine(0, <<"lr">>, <<"2">>),
               PlainLine >>

\* db.lr: 1     (a key whose name contains the '.' character)
TextDotted == << KeyLine(0, <<"db", "lr">>, <<"1">>) >>

\* The texts a document of the corpus can hold, by name, and
\* document.getText().split('\n') of each
Texts == {"db-lr", "dotted"}

Lines(text) ==
    CASE text = "db-lr"  -> TextDbLr
      [] text = "dotted" -> TextDotted

\* Interpolation paths as resolveInterpolation cuts them: '.'-free components.
Queries == { << <<"lr">> >>,
             << <<"db">>, <<"lr">> >>,
             << <<"conf">>, <<"lr">> >>,
             << <<"conf">>, <<"db">>, <<"lr">> >> }

MatchFilters == {"all", "top matches only", "perfect matches only", "other"}

----------------------------------------------------------------------------
(* YamlStructureParser *)

\* getFilePathComponents without its slice(0, -1): the name of the file stays
GetFilePathComponentsWithName(uri) ==
    LET rel  == AsRelativePath(uri)
        n    == Len(rel)
        name == rel[n]
        m    == Len(name)
        stem == IF m >= 2 /\ name[m] \in {"yaml", "yml"}
                    THEN SubSeq(name, 1, m - 1) ELSE name
        noExt == [rel EXCEPT ![n] = stem]
    IN  SelectSeq(noExt, LAMBDA s : s # <<"">>)

\* relativePath.replace(/\.(yaml|yml)$/, '').split('/').filter(Boolean)
\*             .slice(0, -1)
GetFilePathComponents(uri) ==
    LET rel  == AsRelativePath(uri)
        n    == Len(rel)
        name == rel[n]
        m    == Len(name)
        stem == IF m >= 2 /\ name[m] \in {"yaml", "yml"}
                    THEN SubSeq(name, 1, m - 1) ELSE name
        noExt == [rel EXCEPT ![n] = stem]
        parts == SelectSeq(noExt, LAMBDA s : s # <<"">>)
    IN  SubSeq(parts, 1, Len(parts) - 1)

\* The pop loop as an `if`: at most one frame is popped
PopStackOnce(stack, indent) ==
    IF Len(stack) > 0 /\ stack[Len(stack)].indent >= indent
        THEN SubSeq(stack, 1, Len(stack) - 1)
        ELSE stack

\* The pop loop with `>` for `>=`: a key of the same indentation stays open
RECURSIVE PopStackDeeperOnly(_, _)
PopStackDeeperOnly(stack, indent) ==
    IF Len(stack) > 0 /\ stack[Len(stack)].indent > indent
        THEN PopStackDeeperOnly(SubSeq(stack, 1, Len(stack) - 1), indent)
        ELSE stack

\* while (pathStack.length > 0 && top.indent >= indent) pathStack.pop()
RECURSIVE PopStack(_, _)
PopStack(stack, indent) ==
    IF Len(stack) > 0 /\ stack[Len(stack)].indent >= indent
        THEN PopStack(SubSeq(stack, 1, Len(stack) - 1), indent)
        ELSE stack

StackKeys(stack) == [i \in 1..Len(stack) |-> stack[i].key]

\* The loop of parseFile in which a line that is no key line ends every open
\* block: the stack is emptied
RECURSIVE ParseLinesClosingBlocks(_, _, _, _, _)
ParseLinesClosingBlocks(uri, lines, lineNum, pathStack, definitions) ==
    IF lineNum >= Len(lines) THEN definitions
    ELSE LET line == lines[lineNum + 1] IN
         IF line.kind # "key"
            THEN ParseLinesClosingBlocks(uri, lines, lineNum + 1, <<>>, definitions)
            ELSE LET popped == PopStack(pathStack, line.indent)
                     def == [logicalPath |-> GetFilePathComponents(uri)
                                             \o StackKeys(popped)
                                             \o <<line.key>>,
                             fileUri  |-> uri,
                             position |-> <<lineNum, line.indent>>]
                     pushed == IF line.value \in {<<"">>, <<"{">>, <<"[">>}
                                  THEN Append(popped, [key |-> line.key,
                                                       indent |-> line.indent])
                                  ELSE popped
                 IN  ParseLinesClosingBlocks(uri, lines, lineNum + 1, pushed,
                                             Append(definitions, def))

\* The loop of parseFile over lines[lineNum..], lineNum counted from 0
RECURSIVE ParseLines(_, _, _, _, _)
ParseLines(uri, lines, lineNum, pathStack, definitions) ==
    IF lineNum >= Len(lines) THEN definitions
    ELSE LET line == lines[lineNum + 1] IN
         IF line.kind # "key"
            THEN ParseLines(uri, lines, lineNum + 1, pathStack, definitions)
            ELSE LET popped == PopStack(pathStack, line.indent)
                     def == [logicalPath |-> GetFilePathComponents(uri)
                                             \o StackKeys(popped)
                                             \o <<line.key>>,
                             fileUri  |-> uri,
                             position |-> <<lineNum, line.indent>>]
                     pushed == IF line.value \in {<<"">>, <<"{">>, <<"[">>}
                                  THEN Append(popped, [key |-> line.key,
                                                       indent |-> line.indent])
                                  ELSE popped
                 IN  ParseLines(uri, lines, lineNum + 1, pushed,
                                Append(definitions, def))

ParseFile(uri, text) == ParseLines(uri, Lines(text), 0, <<>>, <<>>)

\* pathStack at the end of the loop body for line lineNum - 1, that is after
\* the first lineNum lines
RECURSIVE PathStackAfter(_, _)
PathStackAfter(lines, lineNum) ==
    IF lineNum = 0 THEN <<>>
    ELSE LET line   == lines[lineNum]
             before == PathStackAfter(lines, lineNum - 1)
         IN  IF line.kind # "key" THEN before
             ELSE LET popped == PopStack(before, line.indent)
                  IN  IF line.value \in {<<"">>, <<"{">>, <<"[">>}
                         THEN Append(popped, [key |-> line.key,
                                              indent |-> line.indent])
                         ELSE popped

----------------------------------------------------------------------------
(* ReversePathIndex *)

\* Map helpers: a JavaScript Map is a function whose domain is its key set
MapGet(m, k, default) == IF k \in DOMAIN m THEN m[k] ELSE default
MapSet(m, k, v)       == [x \in DOMAIN m \cup {k} |-> IF x = k THEN v ELSE m[x]]
MapDelete(m, k)       == [x \in DOMAIN m \ {k} |-> m[x]]
EmptyMap              == [x \in {} |-> <<>>]

\* new ReversePathIndex()
NewIndex == [reverseIndex |-> EmptyMap, fileIndex |-> EmptyMap]

\* components.join('.')
RECURSIVE Join(_)
Join(components) ==
    IF Len(components) = 0 THEN <<"">>
    ELSE IF Len(components) = 1 THEN components[1]
    ELSE components[1] \o Join(Tail(components))

\* path.slice(i), i counted from 0
SliceFrom(path, i) == SubSeq(path, i + 1, Len(path))

\* path.slice(-level), 1 <= level <= path.length
SliceLast(path, level) == SubSeq(path, Len(path) - level + 1, Len(path))

\* The loop `for (let i = 0; i < path.length; i++)` of addDefinition
RECURSIVE AddSuffixes(_, _, _)
AddSuffixes(reverseIndex, definition, i) ==
    IF i >= Len(definition.logicalPath) THEN reverseIndex
    ELSE LET suffix == Join(SliceFrom(definition.logicalPath, i))
         IN  AddSuffixes(MapSet(reverseIndex, suffix,
                                Append(MapGet(reverseIndex, suffix, <<>>),
                                       definition)),
                         definition, i + 1)

\* addDefinition without its first part: the definition is registered under
\* its suffixes and not tracked under its document
AddDefinitionUntracked(idx, definition) ==
    [fileIndex    |-> idx.fileIndex,
     reverseIndex |-> AddSuffixes(idx.reverseIndex, definition, 0)]

\* addDefinition with the suffix loop started at i = 1: the full path is not
\* registered
AddDefinitionFromSecond(idx, definition) ==
    LET fileKey == definition.fileUri
    IN  [fileIndex    |-> MapSet(idx.fileIndex, fileKey,
                                 Append(MapGet(idx.fileIndex, fileKey, <<>>),
                                        definition)),
         reverseIndex |-> AddSuffixes(idx.reverseIndex, definition, 1)]

AddDefinition(idx, definition) ==
    LET fileKey == definition.fileUri
    IN  [fileIndex    |-> MapSet(idx.fileIndex, fileKey,
                                 Append(MapGet(idx.fileIndex, fileKey, <<>>),
                                        definition)),
         reverseIndex |-> AddSuffixes(idx.reverseIndex, definition, 0)]

\* The inner loop of removeFile without `this.reverseIndex.delete(suffix)`: a
\* bucket left empty stays
RECURSIVE RemoveSuffixesKeepsEmpty(_, _, _)
RemoveSuffixesKeepsEmpty(reverseIndex, definition, i) ==
    IF i >= Len(definition.logicalPath) THEN reverseIndex
    ELSE LET suffix  == Join(SliceFrom(definition.logicalPath, i))
             entries == MapGet(reverseIndex, suffix, <<>>)
             filteredEntries == SelectSeq(entries, LAMBDA d : d # definition)
         IN  RemoveSuffixesKeepsEmpty(MapSet(reverseIndex, suffix, filteredEntries),
                                      definition, i + 1)

\* The inner loop of removeFile with the entries compared by their logicalPath
\* instead of by identity
RECURSIVE RemoveSuffixesByPath(_, _, _)
RemoveSuffixesByPath(reverseIndex, definition, i) ==
    IF i >= Len(definition.logicalPath) THEN reverseIndex
    ELSE LET suffix  == Join(SliceFrom(definition.logicalPath, i))
             entries == MapGet(reverseIndex, suffix, <<>>)
             filteredEntries ==
                 SelectSeq(entries,
                           LAMBDA d : d.logicalPath # definition.logicalPath)
         IN  RemoveSuffixesByPath(IF Len(filteredEntries) = 0
                                     THEN MapDelete(reverseIndex, suffix)
                                     ELSE MapSet(reverseIndex, suffix, filteredEntries),
                                  definition, i + 1)

\* The inner loop of removeFile: definition leaves the bucket of each of its
\* suffixes; a bucket left empty is deleted.  Definitions are compared by
\* their fields: two parses of one line give two objects with equal fields,
\* both are listed in fileIndex and both leave the bucket by the end of
\* removeFile, as with the comparison by object identity.
RECURSIVE RemoveSuffixes(_, _, _)
RemoveSuffixes(reverseIndex, definition, i) ==
    IF i >= Len(definition.logicalPath) THEN reverseIndex
    ELSE LET suffix  == Join(SliceFrom(definition.logicalPath, i))
             entries == MapGet(reverseIndex, suffix, <<>>)
             filteredEntries == SelectSeq(entries, LAMBDA d : d # definition)
         IN  RemoveSuffixes(IF Len(filteredEntries) = 0
                                THEN MapDelete(reverseIndex, suffix)
                                ELSE MapSet(reverseIndex, suffix, filteredEntries),
                            definition, i + 1)

\* The outer loop of removeFile, over definitions[k..]
RECURSIVE RemoveDefinitions(_, _, _)
RemoveDefinitions(reverseIndex, definitions, k) ==
    IF k > Len(definitions) THEN reverseIndex
    ELSE RemoveDefinitions(RemoveSuffixes(reverseIndex, definitions[k], 0),
                           definitions, k + 1)

\* removeFile that empties the by-document entry instead of deleting it
RemoveFileKeepsEntry(idx, uri) ==
    LET definitions == MapGet(idx.fileIndex, uri, <<>>)
    IN  [reverseIndex |-> RemoveDefinitions(idx.reverseIndex, definitions, 1),
         fileIndex    |-> MapSet(idx.fileIndex, uri, <<>>)]

\* removeFile without its loops: only the by-document entry is deleted
RemoveFileKeepsBuckets(idx, uri) ==
    [reverseIndex |-> idx.reverseIndex,
     fileIndex    |-> MapDelete(idx.fileIndex, uri)]

RemoveFile(idx, uri) ==
    LET definitions == MapGet(idx.fileIndex, uri, <<>>)
    IN  [reverseIndex |-> RemoveDefinitions(idx.reverseIndex, definitions, 1),
         fileIndex    |-> MapDelete(idx.fileIndex, uri)]

\* for (const definition of definitions) this.index.addDefinition(definition)
RECURSIVE AddAll(_, _, _)
AddAll(idx, definitions, k) ==
    IF k > Len(definitions) THEN idx
    ELSE AddAll(AddDefinition(idx, definitions[k]), definitions, k + 1)

\* The first loop of findMatches: the levels from `level` down to 1
RECURSIVE CollectMatches(_, _, _)
CollectMatches(reverseIndex, interpolationPath, level) ==
    IF level < 1 THEN <<>>
    ELSE LET searchPath == Join(SliceLast(interpolationPath, level))
             matches    == MapGet(reverseIndex, searchPath, <<>>)
         IN  [k \in 1..Len(matches) |->
                 [definition |-> matches[k], matchLevel |-> level]]
             \o CollectMatches(reverseIndex, interpolationPath, level - 1)

\* The deduplication without the comparison of match levels: a later result
\* of a document always replaces the earlier one
RECURSIVE DeduplicateKeepsLast(_, _, _)
DeduplicateKeepsLast(results, k, deduplicatedResults) ==
    IF k > Len(results) THEN deduplicatedResults
    ELSE LET result == results[k]
             key    == result.definition.fileUri
             at     == {j \in 1..Len(deduplicatedResults) :
                           deduplicatedResults[j].definition.fileUri = key}
         IN  IF at = {}
                THEN DeduplicateKeepsLast(results, k + 1,
                                          Append(deduplicatedResults, result))
             ELSE LET j == CHOOSE x \in at : TRUE IN
                  DeduplicateKeepsLast(results, k + 1,
                                       [deduplicatedResults EXCEPT ![j] = result])

\* deduplicatedResults, a Map keyed by file URI, as the sequence of its
\* values in insertion order: set() of a new key appends, set() of a key
\* already present replaces the value in place.
RECURSIVE Deduplicate(_, _, _)
Deduplicate(results, k, deduplicatedResults) ==
    IF k > Len(results) THEN deduplicatedResults
    ELSE LET result == results[k]
             key    == result.definition.fileUri
             at     == {j \in 1..Len(deduplicatedResults) :
                           deduplicatedResults[j].definition.fileUri = key}
         IN  IF at = {}
                THEN Deduplicate(results, k + 1,
                                 Append(deduplicatedResults, result))
             ELSE LET j == CHOOSE x \in at : TRUE IN
                  IF deduplicatedResults[j].matchLevel < result.matchLevel
                     THEN Deduplicate(results, k + 1,
                            [deduplicatedResults EXCEPT ![j] = result])
                     ELSE Deduplicate(results, k + 1, deduplicatedResults)

\* The comparator with the levels the other way round: lower levels first
SortsBeforeAscending(a, b) ==
    IF a.matchLevel # b.matchLevel
        THEN a.matchLevel < b.matchLevel
        ELSE UriBefore(a.definition.fileUri, b.definition.fileUri)

\* The comparator without its second key: results of one level compare equal
\* and the stable sort leaves them in the order of the Map
SortsBeforeByLevelOnly(a, b) == b.matchLevel < a.matchLevel

\* The comparator of the sort is negative: a goes before b
SortsBefore(a, b) ==
    IF a.matchLevel # b.matchLevel
        THEN b.matchLevel < a.matchLevel
        ELSE UriBefore(a.definition.fileUri, b.definition.fileUri)

\* uniqueResults.sort(comparator): a stable sort, by insertion
RECURSIVE InsertSorted(_, _)
InsertSorted(sorted, r) ==
    IF Len(sorted) = 0 THEN <<r>>
    ELSE IF SortsBefore(r, Head(sorted)) THEN <<r>> \o sorted
    ELSE <<Head(sorted)>> \o InsertSorted(Tail(sorted), r)

RECURSIVE SortResults(_, _, _)
SortResults(uniqueResults, k, sorted) ==
    IF k > Len(uniqueResults) THEN sorted
    ELSE SortResults(uniqueResults, k + 1, InsertSorted(sorted, uniqueResults[k]))

\* applyMatchFilter with 'top matches only' measured against the length of
\* the query instead of the highest level found
ApplyMatchFilterTopIsPerfect(results, maxPossibleLevel, matchFilter) ==
    IF matchFilter = "all" THEN results
    ELSE IF Len(results) = 0 THEN results
    ELSE IF matchFilter \in {"perfect matches only", "top matches only"}
        THEN SelectSeq(results, LAMBDA r : r.matchLevel = maxPossibleLevel)
    ELSE results

\* applyMatchFilter with 'perfect matches only' measured against the highest
\* level found instead of the length of the query
ApplyMatchFilterPerfectIsTop(results, maxPossibleLevel, matchFilter) ==
    IF matchFilter = "all" THEN results
    ELSE IF Len(results) = 0 THEN results
    ELSE IF matchFilter \in {"perfect matches only", "top matches only"}
        THEN LET highestLevel == results[1].matchLevel
             IN  SelectSeq(results, LAMBDA r : r.matchLevel = highestLevel)
    ELSE results

\* applyMatchFilter with 'top matches only' reading the level of the last
\* result, as if the results were sorted by level ascending
ApplyMatchFilterTopIsLast(results, maxPossibleLevel, matchFilter) ==
    IF matchFilter = "all" THEN results
    ELSE IF Len(results) = 0 THEN results
    ELSE IF matchFilter = "perfect matches only"
        THEN SelectSeq(results, LAMBDA r : r.matchLevel = maxPossibleLevel)
    ELSE IF matchFilter = "top matches only"
        THEN LET highestLevel == results[Len(results)].matchLevel
             IN  SelectSeq(results, LAMBDA r : r.matchLevel = highestLevel)
    ELSE results

\* applyMatchFilter whose fallback for an unknown mode is the default mode,
\* 'top matches only'
ApplyMatchFilterFallsBackToTop(results, maxPossibleLevel, matchFilter) ==
    IF matchFilter = "all" THEN results
    ELSE IF Len(results) = 0 THEN results
    ELSE IF matchFilter = "perfect matches only"
        THEN SelectSeq(results, LAMBDA r : r.matchLevel = maxPossibleLevel)
    ELSE LET highestLevel == results[1].matchLevel
         IN  SelectSeq(results, LAMBDA r : r.matchLevel = highestLevel)

ApplyMatchFilter(results, maxPossibleLevel, matchFilter) ==
    IF matchFilter = "all" THEN results
    ELSE IF Len(results) = 0 THEN results
    ELSE IF matchFilter = "perfect matches only"
        THEN SelectSeq(results, LAMBDA r : r.matchLevel = maxPossibleLevel)
    ELSE IF matchFilter = "top matches only"
        THEN LET highestLevel == results[1].matchLevel
             IN  SelectSeq(results, LAMBDA r : r.matchLevel = highestLevel)
    ELSE results

\* findMatches; matchFilter is the configuration value that applyMatchFilter
\* reads at the time of the call
FindMatches(idx, interpolationPath, matchFilter) ==
    LET results == CollectMatches(idx.reverseIndex, interpolationPath,
                                  Len(interpolationPath))
        uniqueResults == Deduplicate(results, 1, <<>>)
        sortedResults == SortResults(uniqueResults, 1, <<>>)
    IN  ApplyMatchFilter(sortedResults, Len(interpolationPath), matchFilter)

----------------------------------------------------------------------------
(* YamlWorkspaceIndexer *)

\* shouldExcludeFile with the default excludePatterns ['.venv/**'].  The three
\* replace() calls run one after the other, so the '*' of the '.*' that the
\* first call wrote is rewritten by the second: the pattern becomes
\* /^.venv\/.[^/]*$/, which matches a relative path of exactly two segments
\* whose first is ".venv".
ShouldExcludeFile(uri) ==
    LET rel == AsRelativePath(uri)
    IN  Len(rel) = 2 /\ rel[1] = <<"", "venv">>

\* The exclude glob '{.venv/**}' that scanWorkspace hands to findFiles
ExcludedByFindFiles(uri) ==
    LET rel == AsRelativePath(uri)
    IN  Len(rel) >= 2 /\ rel[1] = <<"", "venv">>

\* One indexFile() call suspended at `await openTextDocument(uri)`: via names
\* the caller, scan the scanWorkspace() call that started it (NoScan for the
\* watcher handlers), removed the number of definitions that the caller
\* removed from the index before the call, doc what openTextDocument has read
\* (Opening until it has read the file)
NoScan == 0

Opening == "opening"

Task(uri, via, scan, removed) ==
    [uri |-> uri, via |-> via, scan |-> scan, removed |-> removed, doc |-> Opening]

\* A handler step, as the extension's log tells it: op names the handler that
\* ran to its end ("onFileChanged", "onFileCreated", "scanWorkspace" for the
\* indexFile() it awaited) or the step that suspended it ("awaitChanged",
\* "awaitCreated"), removed and added are the numbers of definitions that the
\* handler removed from the index (removeFile) and added to it (indexFile)
NoUri == "none"

Step(op, uri, removed, added) ==
    [op |-> op, uri |-> uri, removed |-> removed, added |-> added]

FileDefs(idx, uri) == MapGet(idx.fileIndex, uri, <<>>)

\* What indexFile(uri) parses from the document that openTextDocument gave it:
\* nothing when the read failed
ReadDefs(uri, doc) == IF doc = Absent THEN <<>> ELSE ParseFile(uri, doc)

\* The definitions of the file as it is in the workspace now
DocDefs(uri) == ReadDefs(uri, fs[uri])

Event(kind, uri) == [kind |-> kind, uri |-> uri]

Spawn(newTasks) == tasks (+) SetToBag(newTasks)

\* activate() at `yamlIndexer = new YamlWorkspaceIndexer(context)`: Pylance was
\* found, testPyrightReady() has returned true, nothing is registered yet
IndexerCreated ==
    [pc |-> "initialize", pylance |-> TRUE, pyrightReady |-> TRUE,
     registered |-> {}]

\* PythonHelperDocument before its first construction: helperCounter is 0,
\* there is no instance and no shadow document
NoHelpers == [helperCounter |-> 0, instances |-> <<>>, shadow |-> {}]

\* Before activateHydraLinting(): no handler is registered, no timer is set,
\* the diagnostic collection does not exist
LintingNotActivated ==
    [registered |-> FALSE, open |-> {}, version |-> EmptyMap,
     debounceTimers |-> EmptyMap, timers |-> {}, timerCount |-> 0,
     diagnostics |-> EmptyMap, runs |-> 0, quiet |-> EmptyMap,
     starts |-> EmptyMap]

\* No handler, scan or indexFile() call is in flight
Quiet ==
    /\ tasks = EmptyBag
    /\ \A s \in 1..Len(scans) : scans[s] = "done"

\* The state after `new YamlWorkspaceIndexer(context)`, over any workspace
Init ==
    /\ fs \in [Files -> Texts \cup {Absent}]
    /\ watching = FALSE
    /\ events = <<>>
    /\ tasks = EmptyBag
    /\ scans = <<>>
    /\ index = NewIndex
    /\ inputs = 0
    /\ last = Step("none", NoUri, 0, 0)
    /\ activation = IndexerCreated
    /\ helpers = NoHelpers
    /\ lint = LintingNotActivated

\* initialize() up to its `await this.scanWorkspace()`, and scanWorkspace() up
\* to its `await findFiles`
Initialize ==
    /\ ~watching
    /\ watching' = TRUE
    /\ scans' = <<"findFiles">>
    /\ last' = Step("initialize", NoUri, 0, 0)
    /\ UNCHANGED <<helpers, lint, activation, fs, events, tasks, index, inputs>>

\* scanWorkspace() after findFiles resolved: yamlFiles.map(uri => indexFile(uri))
\* runs every indexFile() up to its await, then Promise.all is awaited
ScanWorkspace(s) ==
    /\ s \in 1..Len(scans)
    /\ scans[s] = "findFiles"
    /\ LET yamlFiles == {f \in DOMAIN fs : fs[f] # Absent /\ ~ExcludedByFindFiles(f)}
       IN  tasks' = Spawn({Task(f, "scanWorkspace", s, 0) : f \in yamlFiles})
    /\ scans' = [scans EXCEPT ![s] = "indexing"]
    /\ last' = Step("scanWorkspace", NoUri, 0, 0)
    /\ UNCHANGED <<helpers, lint, activation, fs, watching, events, index, inputs>>

\* Promise.all of scanWorkspace() resolves: initialize() or refreshIndex() returns
ScanDone(s) ==
    /\ s \in 1..Len(scans)
    /\ scans[s] = "indexing"
    /\ \A t \in BagToSet(tasks) : t.scan # s
    /\ scans' = [scans EXCEPT ![s] = "done"]
    /\ last' = Step("scanDone", NoUri, 0, 0)
    /\ UNCHANGED <<helpers, lint, activation, fs, watching, events, tasks, index, inputs>>

\* refreshIndex() without `this.index = new ReversePathIndex()`
RefreshIndexKeepsIndex ==
    /\ Len(scans) >= 1 /\ scans[1] = "done"
    /\ inputs < MaxInputs
    /\ inputs' = inputs + 1
    /\ scans' = Append(scans, "findFiles")
    /\ last' = Step("refreshIndex", NoUri, 0, 0)
    /\ UNCHANGED <<helpers, lint, activation, fs, watching, events, tasks, index>>

\* refreshIndex() up to the await of findFiles; the command is registered after
\* `await yamlIndexer.initialize()`
RefreshIndex ==
    /\ Len(scans) >= 1 /\ scans[1] = "done"
    /\ inputs < MaxInputs
    /\ inputs' = inputs + 1
    /\ index' = NewIndex
    /\ scans' = Append(scans, "findFiles")
    /\ last' = Step("refreshIndex", NoUri, 0, 0)
    /\ UNCHANGED <<helpers, lint, activation, fs, watching, events, tasks>>

\* openTextDocument(uri) reads the file, at some moment between the call of
\* indexFile() and the moment its await resumes
OpenTextDocument(t) ==
    /\ t \in BagToSet(tasks)
    /\ t.doc = Opening
    /\ tasks' = (tasks (-) SetToBag({t})) (+) SetToBag({[t EXCEPT !.doc = fs[t.uri]]})
    /\ last' = last
    /\ UNCHANGED <<helpers, lint, activation, fs, watching, events, scans, index, inputs>>

\* indexFile() without its try/catch: a failed read rejects the promise, and
\* with it the Promise.all of the scan that awaits it
IndexFileRethrows(t) ==
    /\ t \in BagToSet(tasks)
    /\ t.doc # Opening
    /\ tasks' = tasks (-) SetToBag({t})
    /\ index' = AddAll(index, ReadDefs(t.uri, t.doc), 1)
    /\ last' = Step(t.via, t.uri, t.removed, Len(ReadDefs(t.uri, t.doc)))
    /\ scans' = IF t.doc = Absent /\ t.scan # NoScan
                    THEN [scans EXCEPT ![t.scan] = "rejected"]
                    ELSE scans
    /\ UNCHANGED <<helpers, lint, activation, fs, watching, events, inputs>>

\* The rest of indexFile() after its await: the document is parsed and every
\* definition added; a failed read is caught and logged
IndexFile(t) ==
    /\ t \in BagToSet(tasks)
    /\ t.doc # Opening
    /\ tasks' = tasks (-) SetToBag({t})
    /\ index' = AddAll(index, ReadDefs(t.uri, t.doc), 1)
    /\ last' = Step(t.via, t.uri, t.removed, Len(ReadDefs(t.uri, t.doc)))
    /\ UNCHANGED <<helpers, lint, activation, fs, watching, events, scans, inputs>>

OnFileCreated(uri) ==
    /\ events # <<>> /\ Head(events) = Event("create", uri)
    /\ events' = Tail(events)
    /\ IF ShouldExcludeFile(uri)
          THEN /\ UNCHANGED tasks
               /\ last' = Step("onFileCreated", uri, 0, 0)
          ELSE /\ tasks' = Spawn({Task(uri, "onFileCreated", NoScan, 0)})
               /\ last' = Step("awaitCreated", uri, 0, 0)
    /\ UNCHANGED <<helpers, lint, activation, fs, watching, scans, index, inputs>>

\* onFileChanged without its removeFile call: the old entries stay
OnFileChangedKeepsOld(uri) ==
    /\ events # <<>> /\ Head(events) = Event("change", uri)
    /\ events' = Tail(events)
    /\ IF ShouldExcludeFile(uri)
          THEN /\ UNCHANGED tasks
               /\ last' = Step("onFileChanged", uri, 0, 0)
          ELSE /\ tasks' = Spawn({Task(uri, "onFileChanged", NoScan,
                                       Len(FileDefs(index, uri)))})
               /\ last' = Step("awaitChanged", uri, Len(FileDefs(index, uri)), 0)
    /\ UNCHANGED <<helpers, lint, activation, fs, watching, scans, index, inputs>>

OnFileChanged(uri) ==
    /\ events # <<>> /\ Head(events) = Event("change", uri)
    /\ events' = Tail(events)
    /\ IF ShouldExcludeFile(uri)
          THEN /\ UNCHANGED <<tasks, index>>
               /\ last' = Step("onFileChanged", uri, 0, 0)
          ELSE /\ index' = RemoveFile(index, uri)
               /\ tasks' = Spawn({Task(uri, "onFileChanged", NoScan,
                                        Len(FileDefs(index, uri)))})
               /\ last' = Step("awaitChanged", uri, Len(FileDefs(index, uri)), 0)
    /\ UNCHANGED <<helpers, lint, activation, fs, watching, scans, inputs>>

OnFileDeleted(uri) ==
    /\ events # <<>> /\ Head(events) = Event("delete", uri)
    /\ events' = Tail(events)
    /\ index' = IF ShouldExcludeFile(uri) THEN index ELSE RemoveFile(index, uri)
    /\ last' = Step("onFileDeleted", uri,
                   IF ShouldExcludeFile(uri) THEN 0 ELSE Len(FileDefs(index, uri)),
                   0)
    /\ UNCHANGED <<helpers, lint, activation, fs, watching, tasks, scans, inputs>>

\* The workspace changes under the watcher: a file is written (created or
\* changed) or deleted, and the watcher queues the notification
WriteFile(uri, text) ==
    /\ watching
    /\ inputs < MaxInputs
    /\ inputs' = inputs + 1
    /\ fs' = [fs EXCEPT ![uri] = text]
    /\ events' = Append(events,
                    Event(IF fs[uri] = Absent THEN "create" ELSE "change", uri))
    /\ last' = last
    /\ UNCHANGED <<helpers, lint, activation, watching, tasks, scans, index>>

DeleteFile(uri) ==
    /\ watching
    /\ inputs < MaxInputs
    /\ inputs' = inputs + 1
    /\ fs[uri] # Absent
    /\ fs' = [fs EXCEPT ![uri] = Absent]
    /\ events' = Append(events, Event("delete", uri))
    /\ last' = last
    /\ UNCHANGED <<helpers, lint, activation, watching, tasks, scans, index>>

Workspace ==
    \E uri \in Files :
        \/ \E text \in Texts : WriteFile(uri, text)
        \/ DeleteFile(uri)

Progress ==
    \/ Initialize
    \/ \E s \in 1..Len(scans) : ScanWorkspace(s)
    \/ \E s \in 1..Len(scans) : ScanDone(s)
    \/ \E t \in BagToSet(tasks) : OpenTextDocument(t)
    \/ \E t \in BagToSet(tasks) : IndexFile(t)

Deliver ==
    \/ \E uri \in Files : OnFileCreated(uri)
    \/ \E uri \in Files : OnFileChanged(uri)
    \/ \E uri \in Files : OnFileDeleted(uri)
    \/ RefreshIndex

\* Handlers as the extension host runs them: a notification or a refresh is
\* handled as soon as it arrives, also while earlier ones await their I/O
Next == Workspace \/ Progress \/ Deliver

Spec == Init /\ [][Next]_vars

\* Notifications processed one at a time: a notification or a refresh is
\* handled only when every earlier handler has run to completion
NextSeq == Workspace \/ Progress \/ (Quiet /\ Deliver)

SpecSeq == Init /\ [][NextSeq]_vars

----------------------------------------------------------------------------
(* The indexer in the workspace with the virtual environment, every document  *)
(* with the one text "db-lr"                                                  *)

InitVenv ==
    /\ fs \in [VenvFiles -> {"db-lr", Absent}]
    /\ watching = FALSE
    /\ events = <<>>
    /\ tasks = EmptyBag
    /\ scans = <<>>
    /\ index = NewIndex
    /\ inputs = 0
    /\ last = Step("none", NoUri, 0, 0)
    /\ activation = IndexerCreated
    /\ helpers = NoHelpers
    /\ lint = LintingNotActivated

WorkspaceVenv ==
    \E uri \in VenvFiles :
        \/ WriteFile(uri, "db-lr")
        \/ DeleteFile(uri)

DeliverVenv ==
    \/ \E uri \in VenvFiles : OnFileCreated(uri)
    \/ \E uri \in VenvFiles : OnFileChanged(uri)
    \/ \E uri \in VenvFiles : OnFileDeleted(uri)
    \/ RefreshIndex

NextVenv == WorkspaceVenv \/ Progress \/ DeliverVenv

SpecVenv == InitVenv /\ [][NextVenv]_vars

----------------------------------------------------------------------------
(* ReversePathIndex on its own: any sequence of at most MaxOps calls of       *)
(* addDefinition and removeFile on a new index.  The extension makes such     *)
(* calls from indexFile and the handlers; here they come in any order, with   *)
(* any definition the parser produces for a file of the workspace.            *)

Range(seq) == {seq[i] : i \in 1..Len(seq)}

Candidates == UNION {Range(ParseFile(uri, text)) : uri \in Files, text \in Texts}

InitIndex ==
    /\ fs = [uri \in Files |-> Absent]
    /\ watching = FALSE
    /\ events = <<>>
    /\ tasks = EmptyBag
    /\ scans = <<>>
    /\ index = NewIndex
    /\ inputs = 0
    /\ last = Step("none", NoUri, 0, 0)
    /\ activation = IndexerCreated
    /\ helpers = NoHelpers
    /\ lint = LintingNotActivated

CallAddDefinition(d) ==
    /\ inputs < MaxOps
    /\ inputs' = inputs + 1
    /\ index' = AddDefinition(index, d)
    /\ last' = Step("addDefinition", d.fileUri, 0, 1)
    /\ UNCHANGED <<helpers, lint, activation, fs, watching, events, tasks, scans>>

CallRemoveFile(uri) ==
    /\ inputs < MaxOps
    /\ inputs' = inputs + 1
    /\ index' = RemoveFile(index, uri)
    /\ last' = Step("removeFile", uri, Len(FileDefs(index, uri)), 0)
    /\ UNCHANGED <<helpers, lint, activation, fs, watching, events, tasks, scans>>

NextIndex ==
    \/ \E d \in Candidates : CallAddDefinition(d)
    \/ \E uri \in Files : CallRemoveFile(uri)

SpecIndex == InitIndex /\ [][NextIndex]_vars

----------------------------------------------------------------------------
(* HydraInterpolationDefinitionProvider.resolveInterpolation, in the workspace *)
(* of two folders.  The index is built a document at a time, as indexFile and  *)
(* removeFile build it; a go-to-definition request reads it.                   *)

MaxDocs == 3       \* indexFile calls, removeFile calls and requests in the two-folder workspace

\* The text between ${ and } as provideDefinition hands it over, a string in
\* the encoding above: "lr", "db.lr", "db. lr", "conf.lr", "conf.db.lr", ""
InterpolationPaths == { <<"lr">>, <<"db", "lr">>, <<"db", " lr">>,
                        <<"conf", "lr">>, <<"conf", "db", "lr">>, <<"">> }

\* s.trim(), on the segments of InterpolationPaths
Trim(s) == IF s = " lr" THEN "lr" ELSE s

\* interpolationPath.split('.').map(s => s.trim()).filter(Boolean)
PathComponents(interpolationPath) ==
    LET trimmed == [i \in 1..Len(interpolationPath) |-> Trim(interpolationPath[i])]
        kept    == SelectSeq(trimmed, LAMBDA seg : seg # "")
    IN  [i \in 1..Len(kept) |-> <<kept[i]>>]

\* The documents a request comes from: one of each folder, one of no folder
SourceDocuments == {UriA, UriB, UriLoose}

\* The workspace isolation without the test `if (sourceWorkspaceFolder)`
IsolateMatchesOfAnySource(matches, sourceDocument, isolateWorkspaceFolders) ==
    LET sourceWorkspaceFolder == GetWorkspaceFolder(sourceDocument)
    IN  IF isolateWorkspaceFolders
           THEN SelectSeq(matches,
                          LAMBDA match :
                             GetWorkspaceFolder(match.definition.fileUri)
                                = sourceWorkspaceFolder)
           ELSE matches

\* filteredMatches: the workspace isolation of resolveInterpolation
IsolateMatches(matches, sourceDocument, isolateWorkspaceFolders) ==
    LET sourceWorkspaceFolder == GetWorkspaceFolder(sourceDocument)
    IN  IF isolateWorkspaceFolders /\ sourceWorkspaceFolder # NoFolder
           THEN SelectSeq(matches,
                          LAMBDA match :
                             GetWorkspaceFolder(match.definition.fileUri)
                                = sourceWorkspaceFolder)
           ELSE matches

\* filteredMatches of resolveInterpolation, for the configuration values
\* matchFilter and isolateWorkspaceFolders read at the time of the request
FilteredMatches(idx, interpolationPath, sourceDocument, matchFilter, isolateWorkspaceFolders) ==
    LET pathComponents == PathComponents(interpolationPath)
    IN  IF Len(pathComponents) = 0 THEN <<>>
        ELSE IsolateMatches(FindMatches(idx, pathComponents, matchFilter),
                            sourceDocument, isolateWorkspaceFolders)

\* resolveInterpolation: the locations it returns, the empty list standing
\* for `undefined`
ResolveInterpolation(idx, interpolationPath, sourceDocument, matchFilter, isolateWorkspaceFolders) ==
    LET filteredMatches == FilteredMatches(idx, interpolationPath, sourceDocument,
                                           matchFilter, isolateWorkspaceFolders)
    IN  [i \in 1..Len(filteredMatches) |->
            [uri   |-> filteredMatches[i].definition.fileUri,
             range |-> filteredMatches[i].definition.position]]

\* indexFile(uri) of a document with the given text, start to end
IndexDocument(uri, text) ==
    /\ inputs < MaxDocs
    /\ inputs' = inputs + 1
    /\ index' = AddAll(index, ParseFile(uri, text), 1)
    /\ last' = Step("indexFile", uri, 0, Len(ParseFile(uri, text)))
    /\ UNCHANGED <<helpers, lint, activation, fs, watching, events, tasks, scans>>

\* removeFile(uri), as the change and delete handlers call it
RemoveDocument(uri) ==
    /\ inputs < MaxDocs
    /\ inputs' = inputs + 1
    /\ index' = RemoveFile(index, uri)
    /\ last' = Step("removeFile", uri, Len(FileDefs(index, uri)), 0)
    /\ UNCHANGED <<helpers, lint, activation, fs, watching, events, tasks, scans>>

NextFolders ==
    \/ \E uri \in RootFiles : \E text \in Texts : IndexDocument(uri, text)
    \/ \E uri \in RootFiles : RemoveDocument(uri)

SpecFolders == InitIndex /\ [][NextFolders]_vars

----------------------------------------------------------------------------
(* Vocabulary of the properties *)

Min(a, b) == IF a <= b THEN a ELSE b

OwnedBy(uri, entries) == SelectSeq(entries, LAMBDA d : d.fileUri = uri)

\* The matches of a query result that belong to one document
MatchesOf(uri, results) == SelectSeq(results, LAMBDA r : r.definition.fileUri = uri)

\* The index keys under which a logical path is to be found: one per suffix
SuffixKeys(path) == {Join(SliceLast(path, n)) : n \in 1..Len(path)}

\* The index holds for uri exactly the definitions defs, in their order: the
\* by-document store lists them, every suffix bucket lists those of them that
\* end in its key and no other definition of uri, and no bucket is missing
HoldsExactly(idx, uri, defs) ==
    /\ FileDefs(idx, uri) = defs
    /\ \A k \in DOMAIN idx.reverseIndex :
          OwnedBy(uri, idx.reverseIndex[k])
            = SelectSeq(defs, LAMBDA d : k \in SuffixKeys(d.logicalPath))
    /\ \A d \in Range(defs) : SuffixKeys(d.logicalPath) \subseteq DOMAIN idx.reverseIndex

NoEventFor(uri) == \A i \in 1..Len(events) : events[i].uri # uri

\* The index once the update of uri to its current content is complete
Updated(idx, uri) == AddAll(RemoveFile(idx, uri), DocDefs(uri), 1)

----------------------------------------------------------------------------
(* C1: with notifications processed one at a time (SpecSeq), when the handler *)
(* of a change notification for a document has run to its end and no later    *)
(* notification for the document waits, the index holds for the document      *)
(* exactly the definitions of its current content, in the by-document store   *)
(* and in every suffix bucket.                                                *)
C1_ChangeReplacesDefinitions ==
    \A uri \in Files :
        (last.op = "onFileChanged" /\ last.uri = uri /\ NoEventFor(uri))
            => HoldsExactly(index, uri, DocDefs(uri))

\* A change handler has run to its end for a document that was indexed with
\* another content: its three old definitions were removed, the one new
\* definition added
C1_Witness ==
    \E uri \in Files :
        /\ last = Step("onFileChanged", uri, 3, 1)
        /\ NoEventFor(uri)
        /\ fs[uri] = "dotted"
        /\ Len(FileDefs(index, uri)) = 1

----------------------------------------------------------------------------
(* C2: once every handler has finished (no notification waits, no scan or     *)
(* indexFile call is in flight), the index holds for every document exactly   *)
(* one copy of the definitions of its latest content, and nothing for a       *)
(* document that is deleted or excluded.                                      *)
C2_QuiescentIndexIsCurrent ==
    (watching /\ Quiet /\ events = <<>>)
        => \A uri \in Files :
              HoldsExactly(index, uri,
                           IF ShouldExcludeFile(uri) THEN <<>> ELSE DocDefs(uri))

----------------------------------------------------------------------------
(* C3: the step that starts handling a change notification for a document      *)
(* leaves an index in which every query sees, for that document, either the    *)
(* matches it saw before the notification or the matches of the completed      *)
(* update.                                                                     *)
C3_QuerySeesOldOrNew ==
    [][\A uri \in Files :
         OnFileChanged(uri) =>
            \A q \in Queries : \A mf \in MatchFilters :
               LET seen == MatchesOf(uri, FindMatches(index', q, mf))
               IN  \/ seen = MatchesOf(uri, FindMatches(index, q, mf))
                   \/ seen = MatchesOf(uri, FindMatches(Updated(index, uri), q, mf))
      ]_vars

----------------------------------------------------------------------------
(* C4: a deleted document and the other documents                              *)

\* No query returns a match owned by uri
NoMatchOwned(idx, uri) ==
    \A q \in Queries : \A mf \in MatchFilters :
        MatchesOf(uri, FindMatches(idx, q, mf)) = <<>>

\* The delete notification of uri, the last notification for uri so far, has
\* been handled: the file is gone and no notification for it waits
DeleteHandled(uri) == watching /\ fs[uri] = Absent /\ NoEventFor(uri)

\* C4: once the delete notification of a document is handled, and
\* until a later notification for it arrives, no query returns a match owned by
\* the document, and handling the notification leaves the matches owned by
\* every other document as they were, for every query and filter mode.
C4_DeleteLeavesOthersSame ==
    /\ [](\A uri \in Files : DeleteHandled(uri) => NoMatchOwned(index, uri))
    /\ [][\A uri \in Files :
            OnFileDeleted(uri) =>
               \A other \in Files \ {uri} : \A q \in Queries : \A mf \in MatchFilters :
                  MatchesOf(other, FindMatches(index', q, mf))
                    = MatchesOf(other, FindMatches(index, q, mf))
         ]_vars

\* What remains of C4 when notifications are processed one at a time: the
\* deleted document owns no match, and handling the notification leaves the
\* matches owned by every other document as they were under every filter mode
\* but 'top matches only', under which a document that had a match keeps it and
\* a document that had none may gain one.
SerializedDeleteLeavesOthers ==
    /\ [](\A uri \in Files : DeleteHandled(uri) => NoMatchOwned(index, uri))
    /\ [][\A uri \in Files :
            OnFileDeleted(uri) =>
               \A other \in Files \ {uri} : \A q \in Queries : \A mf \in MatchFilters :
                  LET before == MatchesOf(other, FindMatches(index, q, mf))
                      after  == MatchesOf(other, FindMatches(index', q, mf))
                  IN  \/ after = before
                      \/ mf = "top matches only" /\ before = <<>>
         ]_vars

----------------------------------------------------------------------------
(* C5..C8: addDefinition and removeFile, on every index state that calls of  *)
(* the two build (SpecIndex); the formulas hold as well on the index states   *)
(* the extension reaches (Spec)                                               *)

Count(entries, d) == Len(SelectSeq(entries, LAMBDA e : e = d))

\* The suffix keys under which a definition is registered
KeysHolding(idx, d) ==
    {k \in DOMAIN idx.reverseIndex : d \in Range(idx.reverseIndex[k])}

\* C5: for every definition d with a logical path of length N, addDefinition
\* registers d once more under exactly N suffix keys, one per suffix length
\* 1..N, and under no other key; after removeFile of its document d is
\* registered under no suffix key.
C5_SuffixRegistrations ==
    \A d \in Candidates :
        LET added   == AddDefinition(index, d)
            removed == RemoveFile(added, d.fileUri)
            keys    == {Join(SliceLast(d.logicalPath, n)) : n \in 1..Len(d.logicalPath)}
        IN  /\ Cardinality(keys) = Len(d.logicalPath)
            /\ KeysHolding(added, d) = keys
            /\ \A k \in DOMAIN added.reverseIndex :
                  Count(added.reverseIndex[k], d)
                    = Count(MapGet(index.reverseIndex, k, <<>>), d)
                        + (IF k \in keys THEN 1 ELSE 0)
            /\ DOMAIN index.reverseIndex \subseteq DOMAIN added.reverseIndex
            /\ KeysHolding(removed, d) = {}
            /\ \A e \in Range(FileDefs(index, d.fileUri)) : KeysHolding(removed, e) = {}

\* addDefinition has just added a definition of conf/db.yaml with a path of
\* three components beside one of db.yaml: it is held under three keys, and
\* removeFile of its document leaves it under none
C5_Witness ==
    /\ last = Step("addDefinition", UriConfDb, 0, 1)
    /\ FileDefs(index, UriDb) # <<>>
    /\ \E d \in Range(FileDefs(index, UriConfDb)) :
          /\ Len(d.logicalPath) = 3
          /\ Cardinality(KeysHolding(index, d)) = 3
          /\ KeysHolding(RemoveFile(index, UriConfDb), d) = {}

\* C6: removeFile is idempotent: for a document that has no entry in the
\* by-document store (never added, or already removed) it leaves the
\* by-document store and every suffix bucket as they are, and a second
\* removeFile after a first changes nothing.
C6_RemoveFileIdempotent ==
    \A uri \in Files :
        /\ uri \notin DOMAIN index.fileIndex => RemoveFile(index, uri) = index
        /\ RemoveFile(RemoveFile(index, uri), uri) = RemoveFile(index, uri)

\* removeFile has just been called for a document that had nothing in the
\* index, while the other document has definitions in it
C6_Witness ==
    \E uri \in Files :
        /\ last = Step("removeFile", uri, 0, 0)
        /\ uri \notin DOMAIN index.fileIndex
        /\ index # NewIndex

\* Two index states answer every query alike
SameAnswers(idx1, idx2) ==
    \A q \in Queries : \A mf \in MatchFilters :
        FindMatches(idx1, q, mf) = FindMatches(idx2, q, mf)

\* C7: from any reachable index state, addDefinition(d) followed by
\* removeFile of d's document leaves the index observably identical, for
\* every query path, to its state before the add.
C7_RoundTrip ==
    \A d \in Candidates :
        SameAnswers(RemoveFile(AddDefinition(index, d), d.fileUri), index)

\* C7, amended: from any reachable index state in which d's document has no
\* definitions, addDefinition(d) followed by removeFile of d's document gives
\* back the state before the add, so every query is answered as before.
C7_RoundTripOfNewDocument ==
    \A d \in Candidates :
        FileDefs(index, d.fileUri) = <<>> =>
            RemoveFile(AddDefinition(index, d), d.fileUri) = index

\* The other document has definitions in the index, d's document has none:
\* removeFile has just removed the one definition added for it, and adding d
\* changes the answer to a query
C7_Witness ==
    \E d \in Candidates :
        /\ last = Step("removeFile", d.fileUri, 1, 0)
        /\ FileDefs(index, d.fileUri) = <<>>
        /\ index # NewIndex
        /\ ~SameAnswers(AddDefinition(index, d), index)

\* C8: in every reachable state no suffix bucket is empty, and removeFile of
\* any document leaves none empty.
C8_NoEmptyBucket ==
    /\ \A k \in DOMAIN index.reverseIndex : Len(index.reverseIndex[k]) > 0
    /\ \A uri \in Files :
          LET removed == RemoveFile(index, uri)
          IN  \A k \in DOMAIN removed.reverseIndex : Len(removed.reverseIndex[k]) > 0

\* removeFile has just removed the two definitions of a document: the
\* buckets they alone filled are gone, those of the other document remain
C8_Witness ==
    \E uri \in Files :
        /\ last = Step("removeFile", uri, 2, 0)
        /\ index.reverseIndex # EmptyMap
        /\ \E d \in Candidates :
              d.fileUri = uri /\ Join(d.logicalPath) \notin DOMAIN index.reverseIndex

----------------------------------------------------------------------------
(* C9, C10: the matches of a query                                            *)

\* C9: for every match returned for a query path q, matchLevel is the number
\* of path components that matched: 1 <= matchLevel <= min(length of q, length
\* of the definition's logicalPath), and the last matchLevel components of the
\* logicalPath equal those of q, also for keys that contain a '.'.
C9_MatchLevelCountsComponents ==
    \A q \in Queries : \A mf \in MatchFilters :
        \A r \in Range(FindMatches(index, q, mf)) :
            /\ 1 <= r.matchLevel
            /\ r.matchLevel <= Min(Len(q), Len(r.definition.logicalPath))
            /\ SliceLast(r.definition.logicalPath, r.matchLevel)
                 = SliceLast(q, r.matchLevel)

\* The levels at which a definition of the document is found for the query:
\* the suffix of q of that length is a suffix key of the definition
LevelsAttained(idx, uri, q) ==
    {level \in 1..Len(q) :
        \E d \in Range(FileDefs(idx, uri)) :
            Join(SliceLast(q, level)) \in SuffixKeys(d.logicalPath)}

Max(levels) == CHOOSE m \in levels : \A n \in levels : n <= m

\* C10: for every query and filter mode the result holds at most one match
\* per document, and that match carries the highest matchLevel that a
\* definition of the document attains for the query; with the filter 'all'
\* every document that attains a level has its match in the result.
C10_OneMatchPerDocument ==
    \A q \in Queries : \A mf \in MatchFilters : \A uri \in Files :
        LET matches == MatchesOf(uri, FindMatches(index, q, mf))
            levels  == LevelsAttained(index, uri, q)
        IN  /\ Len(matches) <= 1
            /\ Len(matches) = 1 =>
                  /\ levels # {}
                  /\ matches[1].matchLevel = Max(levels)
                  /\ matches[1].definition \in Range(FileDefs(index, uri))
                  /\ Join(SliceLast(q, Max(levels)))
                       \in SuffixKeys(matches[1].definition.logicalPath)
            /\ (mf = "all" /\ levels # {}) => Len(matches) = 1

\* db.yaml has the definitions db.lr and lr in the index: both match the
\* query db.lr, at levels 2 and 1, and the result holds one match of db.yaml,
\* at level 2
C10_Witness ==
    LET q == << <<"db">>, <<"lr">> >>
        matches == MatchesOf(UriDb, FindMatches(index, q, "all"))
    IN  /\ last = Step("addDefinition", UriDb, 0, 1)
        /\ LevelsAttained(index, UriDb, q) = {1, 2}
        /\ \E d \in Range(FileDefs(index, UriDb)) : Len(d.logicalPath) = 1
        /\ Len(matches) = 1
        /\ matches[1].matchLevel = 2

----------------------------------------------------------------------------
(* C11..C16: the result of a go-to-definition request, on every index state   *)
(* that up to MaxDocs indexFile and removeFile calls build in the workspace   *)
(* of two folders (SpecFolders)                                               *)

Booleans == {TRUE, FALSE}

\* matches is ordered by matchLevel descending, then by file URI ascending
Ordered(matches) ==
    \A i, j \in 1..Len(matches) :
        i < j =>
            \/ matches[i].matchLevel > matches[j].matchLevel
            \/ /\ matches[i].matchLevel = matches[j].matchLevel
               /\ UriBefore(matches[i].definition.fileUri, matches[j].definition.fileUri)

\* C11: the result of a query is ordered by matchLevel descending, and
\* matches of equal matchLevel by file URI ascending; the matchFilter and
\* workspace-isolation steps preserve the order: what they return is the
\* unfiltered result with some matches left out.
C11_ResultIsOrdered ==
    \A path \in InterpolationPaths : \A source \in SourceDocuments :
    \A mf \in MatchFilters : \A isolate \in Booleans :
        LET unfiltered == FindMatches(index, PathComponents(path), "all")
            returned   == FilteredMatches(index, path, source, mf, isolate)
        IN  /\ Ordered(unfiltered)
            /\ Ordered(returned)
            /\ Len(PathComponents(path)) > 0 =>
                  returned = SelectSeq(unfiltered, LAMBDA r : r \in Range(returned))

\* The three documents are indexed, a/conf/db.yaml last: ${conf.db.lr} finds
\* it at level 3 and the two others at level 2, and the order of the result
\* is not the order in which the buckets list them
C11_Witness ==
    LET q == << <<"conf">>, <<"db">>, <<"lr">> >>
        returned == FilteredMatches(index, <<"conf", "db", "lr">>, UriLoose, "all", TRUE)
    IN  /\ last = Step("indexFile", UriAConf, 0, 3)
        /\ Len(returned) = 3
        /\ returned[1].definition.fileUri = UriAConf /\ returned[1].matchLevel = 3
        /\ returned[2].definition.fileUri = UriA /\ returned[2].matchLevel = 2
        /\ returned[3].definition.fileUri = UriB /\ returned[3].matchLevel = 2
        /\ Deduplicate(CollectMatches(index.reverseIndex, q, 3), 1, <<>>) # returned

\* The input of applyMatchFilter: the deduplicated matches, sorted
SortedMatches(idx, pathComponents) ==
    SortResults(Deduplicate(CollectMatches(idx.reverseIndex, pathComponents,
                                           Len(pathComponents)), 1, <<>>),
                1, <<>>)

QueryPaths == {PathComponents(path) : path \in InterpolationPaths} \ {<<>>}

Levels(matches) == {matches[i].matchLevel : i \in 1..Len(matches)}

\* C12: under 'top matches only' the result of findMatches is exactly the
\* deduplicated matches whose matchLevel is the highest that any match of this
\* query attains, in their order, and it is non-empty whenever the unfiltered
\* result is.
C12_TopMatchesOnly ==
    \A q \in QueryPaths :
        LET unfiltered == SortedMatches(index, q)
            top        == FindMatches(index, q, "top matches only")
        IN  IF unfiltered = <<>> THEN top = <<>>
            ELSE /\ top # <<>>
                 /\ top = SelectSeq(unfiltered,
                                    LAMBDA r : r.matchLevel = Max(Levels(unfiltered)))

\* The three documents are indexed: ${conf.lr} matches a/conf/db.yaml at
\* level 2 and the two others at level 1, and 'top matches only' keeps the
\* first alone, at a level below the 3 that ${conf.db.lr} attains
C12_Witness ==
    LET q   == << <<"conf">>, <<"lr">> >>
        top == FindMatches(index, q, "top matches only")
    IN  /\ last.op = "indexFile"
        /\ Len(SortedMatches(index, q)) = 3
        /\ Len(top) = 1
        /\ top[1].definition.fileUri = UriAConf /\ top[1].matchLevel = 2
        /\ 3 \in Levels(SortedMatches(index, << <<"conf">>, <<"db">>, <<"lr">> >>))

\* C14: under 'perfect matches only' the result of findMatches is exactly the
\* deduplicated matches whose matchLevel is the number of components of the
\* query path, in their order, and is empty when no match reaches that level.
C14_PerfectMatchesOnly ==
    \A q \in QueryPaths :
        LET unfiltered == SortedMatches(index, q)
            perfect    == FindMatches(index, q, "perfect matches only")
        IN  /\ perfect = SelectSeq(unfiltered, LAMBDA r : r.matchLevel = Len(q))
            /\ Len(q) \notin Levels(unfiltered) => perfect = <<>>

\* a/db.yaml and b/db.yaml are indexed: ${conf.db.lr} matches both at level 2
\* and none at level 3, so 'perfect matches only' returns nothing, while
\* ${db.lr} matches both perfectly
C14_Witness ==
    LET q == << <<"conf">>, <<"db">>, <<"lr">> >>
    IN  /\ last.op = "indexFile"
        /\ Levels(SortedMatches(index, q)) = {2}
        /\ Len(SortedMatches(index, q)) = 2
        /\ FindMatches(index, q, "perfect matches only") = <<>>
        /\ Len(FindMatches(index, << <<"db">>, <<"lr">> >>, "perfect matches only")) = 2

\* C15: under 'all' applyMatchFilter returns its input unchanged, and a
\* matchFilter value that is none of the three recognised modes behaves like
\* 'all'.
C15_AllIsUnfiltered ==
    \A q \in QueryPaths :
        LET unfiltered == SortedMatches(index, q)
        IN  /\ ApplyMatchFilter(unfiltered, Len(q), "all") = unfiltered
            /\ ApplyMatchFilter(unfiltered, Len(q), "other") = unfiltered
            /\ FindMatches(index, q, "other") = FindMatches(index, q, "all")

\* The three documents are indexed: for ${conf.lr} the modes 'all' and
\* "other" return three matches at two levels, more than 'top matches only'
\* and 'perfect matches only' return
C15_Witness ==
    LET q == << <<"conf">>, <<"lr">> >>
    IN  /\ last.op = "indexFile"
        /\ Len(FindMatches(index, q, "all")) = 3
        /\ Len(FindMatches(index, q, "other")) = 3
        /\ Levels(FindMatches(index, q, "all")) = {1, 2}
        /\ Len(FindMatches(index, q, "top matches only")) = 1

SameRoot(matches, sourceDocument) ==
    SelectSeq(matches,
              LAMBDA r : GetWorkspaceFolder(r.definition.fileUri)
                            = GetWorkspaceFolder(sourceDocument))

\* C13: the filter mode is applied to the matches that remain after the
\* workspace isolation: with isolation enabled and a source document that has
\* a workspace folder, 'top matches only' returns the matches of that folder
\* whose matchLevel is the highest among the matches of that folder, so the
\* result is non-empty whenever a document of the folder matches at any level.
C13_FilterAfterIsolation ==
    \A path \in InterpolationPaths : \A source \in SourceDocuments :
        (Len(PathComponents(path)) > 0 /\ GetWorkspaceFolder(source) # NoFolder) =>
            LET sameRoot == SameRoot(SortedMatches(index, PathComponents(path)), source)
                returned == FilteredMatches(index, path, source,
                                            "top matches only", TRUE)
            IN  IF sameRoot = <<>> THEN returned = <<>>
                ELSE /\ returned # <<>>
                     /\ returned = SelectSeq(sameRoot,
                                       LAMBDA r : r.matchLevel = Max(Levels(sameRoot)))

\* C16: with isolateWorkspaceFolders enabled and a source document that has a
\* workspace folder, every returned location is of a document of that folder,
\* and every match of that folder that findMatches returned is among them;
\* when the source document has no workspace folder, or the option is
\* disabled, the step drops no match.
C16_WorkspaceIsolation ==
    \A path \in InterpolationPaths : \A source \in SourceDocuments :
    \A mf \in MatchFilters : \A isolate \in Booleans :
        LET q        == PathComponents(path)
            matches  == IF Len(q) = 0 THEN <<>> ELSE FindMatches(index, q, mf)
            returned == ResolveInterpolation(index, path, source, mf, isolate)
            located  == [i \in 1..Len(matches) |->
                            [uri   |-> matches[i].definition.fileUri,
                             range |-> matches[i].definition.position]]
        IN  IF isolate /\ GetWorkspaceFolder(source) # NoFolder
               THEN /\ \A i \in 1..Len(returned) :
                          GetWorkspaceFolder(returned[i].uri) = GetWorkspaceFolder(source)
                    /\ returned = SelectSeq(located,
                                     LAMBDA loc : GetWorkspaceFolder(loc.uri)
                                                    = GetWorkspaceFolder(source))
               ELSE returned = located

\* a/db.yaml and b/db.yaml are indexed: a request for ${db.lr} from a document
\* of folder b gets the location in b/db.yaml alone with the isolation on, and
\* both locations with the isolation off or from a document of no folder
C16_Witness ==
    /\ last.op = "indexFile"
    /\ Len(FindMatches(index, << <<"db">>, <<"lr">> >>, "all")) = 2
    /\ Len(ResolveInterpolation(index, <<"db", "lr">>, UriB, "all", TRUE)) = 1
    /\ ResolveInterpolation(index, <<"db", "lr">>, UriB, "all", TRUE)[1].uri = UriB
    /\ Len(ResolveInterpolation(index, <<"db", "lr">>, UriB, "all", FALSE)) = 2
    /\ Len(ResolveInterpolation(index, <<"db", "lr">>, UriLoose, "all", TRUE)) = 2

----------------------------------------------------------------------------
(* C17: excluded documents, in the workspace with the virtual environment     *)
(* (SpecVenv)                                                                 *)

\* The workspace-relative path of the document matches the configured
\* exclusion pattern '.venv/**': it lies under .venv, at any depth
MatchesExclusionPattern(uri) ==
    LET rel == AsRelativePath(uri)
    IN  Len(rel) >= 2 /\ rel[1] = <<"", "venv">>

\* The index holds nothing of the document
HoldsNothingOf(idx, uri) ==
    /\ uri \notin DOMAIN idx.fileIndex
    /\ \A k \in DOMAIN idx.reverseIndex : OwnedBy(uri, idx.reverseIndex[k]) = <<>>

\* C17: in every reachable state the index holds no definition of a document
\* whose workspace-relative path matches the exclusion pattern '.venv/**', at
\* any depth under .venv, and the create, change and delete notifications for
\* such a document leave the index unchanged.
C17_ExcludedNeverIndexed ==
    /\ [](\A uri \in VenvFiles :
             MatchesExclusionPattern(uri) => HoldsNothingOf(index, uri))
    /\ [][\A uri \in VenvFiles :
             (/\ MatchesExclusionPattern(uri)
              /\ OnFileCreated(uri) \/ OnFileChanged(uri) \/ OnFileDeleted(uri))
                => index' = index
         ]_vars

----------------------------------------------------------------------------
(* C18..C20: refresh, and documents that cannot be read                       *)

\* What a startup scan of the workspace as it is now leaves in the index for
\* a document: the definitions of its text, nothing when it does not exist or
\* findFiles excludes it
ScannedDefs(uri) == IF ExcludedByFindFiles(uri) THEN <<>> ELSE DocDefs(uri)

\* refreshIndex has just completed: its scanWorkspace has resolved, no
\* indexFile call is in flight and no notification waits
RefreshCompleted ==
    /\ Len(scans) >= 2
    /\ last.op = "scanDone"
    /\ Quiet
    /\ events = <<>>

ReadFails(t) == IndexFile(t) /\ t.doc = Absent

\* The startup scan has completed and nothing else has touched the index: no
\* notification has been handled and no refresh has run
StartupScanOnly ==
    /\ Len(scans) = 1 /\ scans[1] = "done"
    /\ Len(events) = inputs

\* C19: during the startup scan a document whose read fails contributes no
\* definitions and stops nothing: the index, the scan and the other indexFile
\* calls are as before.  No scan ever ends otherwise than by completing, and a
\* scan whose indexFile calls have all returned can complete.  When the
\* startup scan has completed, every document that was not touched since the
\* start is fully indexed, and a document that was touched holds nothing or
\* the definitions of one text it had.
C19_ScanSurvivesFailedRead ==
    /\ [][\A t \in BagToSet(tasks) :
            (ReadFails(t) /\ t.via = "scanWorkspace") =>
                /\ index' = index
                /\ scans' = scans
                /\ tasks' = tasks (-) SetToBag({t})
         ]_vars
    /\ [](\A s \in 1..Len(scans) :
             /\ scans[s] \in {"findFiles", "indexing", "done"}
             /\ (scans[s] = "indexing" /\ \A t \in BagToSet(tasks) : t.scan # s)
                   => ENABLED ScanDone(s))
    /\ [](StartupScanOnly =>
             \A uri \in Files :
                IF NoEventFor(uri)
                   THEN HoldsExactly(index, uri, ScannedDefs(uri))
                   ELSE \/ HoldsNothingOf(index, uri)
                        \/ \E text \in Texts :
                              HoldsExactly(index, uri, ParseFile(uri, text)))

\* An indexFile call of the startup scan has just ended on a document that
\* was deleted before it could be read: the document owns nothing in the
\* index, the other document of the scan is fully indexed, and the scan goes on
C19_Witness ==
    \E uri \in Files : \E other \in Files \ {uri} :
        /\ last = Step("scanWorkspace", uri, 0, 0)
        /\ fs[uri] = Absent
        /\ HoldsNothingOf(index, uri)
        /\ fs[other] # Absent
        /\ HoldsExactly(index, other, DocDefs(other))
        /\ scans = <<"indexing">>

\* C20: when the read of a document fails while its change or create
\* notification is handled, the handler ends without raising, the document
\* contributes no definitions afterwards, and the definitions of every other
\* document are unchanged.
C20_FailedReadLeavesNothing ==
    [][\A t \in BagToSet(tasks) :
          (ReadFails(t) /\ t.via \in {"onFileChanged", "onFileCreated"}) =>
              /\ HoldsNothingOf(index', t.uri)
              /\ scans' = scans
              /\ \A other \in Files \ {t.uri} :
                    /\ FileDefs(index', other) = FileDefs(index, other)
                    /\ \A k \in DOMAIN index.reverseIndex \cup DOMAIN index'.reverseIndex :
                          OwnedBy(other, MapGet(index'.reverseIndex, k, <<>>))
                            = OwnedBy(other, MapGet(index.reverseIndex, k, <<>>))
      ]_vars

\* What does hold of a failed read, whoever called indexFile: the index is
\* left as it was, so nothing partial is added and no other document changes,
\* and no scan is stopped
FailedReadChangesNothing ==
    [][\A t \in BagToSet(tasks) :
          ReadFails(t) => index' = index /\ scans' = scans
      ]_vars

----------------------------------------------------------------------------
(* Go-to-definition requests on the index of the two-folder workspace: the  *)
(* requests of provideDefinition arrive between the indexFile and           *)
(* removeFile calls, each with the configuration of its moment.             *)

\* applyMatchFilter reaches the statement `results[0].matchLevel`
ReadsFirstResultOfAnyLength(results, matchFilter) ==
    /\ matchFilter # "all"
    /\ matchFilter # "perfect matches only"
    /\ matchFilter = "top matches only"

ReadsFirstResult(results, matchFilter) ==
    /\ matchFilter # "all"
    /\ Len(results) # 0
    /\ matchFilter # "perfect matches only"
    /\ matchFilter = "top matches only"

\* The request ends in a TypeError: applyMatchFilter reads a property of
\* results[0] and there is no such element.  Nothing else in the request can
\* throw: Map.get() is completed with `|| []`, the folder of a match is read
\* with `?.` and that of the source under `if (sourceWorkspaceFolder)`.
RequestThrows(idx, interpolationPath, matchFilter) ==
    LET pathComponents == PathComponents(interpolationPath)
        sortedResults  == SortedMatches(idx, pathComponents)
    IN  /\ Len(pathComponents) # 0
        /\ ReadsFirstResult(sortedResults, matchFilter)
        /\ Len(sortedResults) = 0

\* What a request leaves in `last`: the request and its outcome
Answer(op, interpolationPath, sourceDocument, matchFilter, isolate, locations) ==
    [op |-> op, uri |-> sourceDocument, removed |-> 0, added |-> 0,
     interpolationPath |-> interpolationPath, matchFilter |-> matchFilter,
     isolateWorkspaceFolders |-> isolate, locations |-> locations]

\* provideDefinition with the cursor in ${interpolationPath}
ProvideDefinition(interpolationPath, sourceDocument, matchFilter, isolate) ==
    /\ inputs < MaxDocs
    /\ inputs' = inputs + 1
    /\ last' = IF RequestThrows(index, interpolationPath, matchFilter)
                  THEN Answer("rejected", interpolationPath, sourceDocument,
                              matchFilter, isolate, <<>>)
                  ELSE Answer("provideDefinition", interpolationPath,
                              sourceDocument, matchFilter, isolate,
                              ResolveInterpolation(index, interpolationPath,
                                                   sourceDocument, matchFilter,
                                                   isolate))
    /\ UNCHANGED <<helpers, lint, activation, fs, watching, events, tasks, scans, index>>

NextRequests ==
    \/ NextFolders
    \/ \E interpolationPath \in InterpolationPaths :
       \E sourceDocument \in SourceDocuments :
       \E matchFilter \in MatchFilters :
       \E isolate \in Booleans :
          ProvideDefinition(interpolationPath, sourceDocument, matchFilter, isolate)

SpecRequests == InitIndex /\ [][NextRequests]_vars

\* A request has been answered
Answered == last.op \in {"provideDefinition", "rejected"}

\* C21: no go-to-definition request ends in an error, and none changes the
\* index.  A request whose path has no components, whose path finds nothing
\* in the index, or whose matches are all removed by the deduplication, the
\* match filter or the workspace isolation, is answered with no location.
C21_EmptyResultNeverError ==
    /\ [](last.op # "rejected")
    /\ [](Answered =>
            LET pathComponents == PathComponents(last.interpolationPath)
                results == CollectMatches(index.reverseIndex, pathComponents,
                                          Len(pathComponents))
                found   == FindMatches(index, pathComponents, last.matchFilter)
                kept    == IsolateMatches(found, last.uri,
                                          last.isolateWorkspaceFolders)
            IN  (\/ Len(pathComponents) = 0
                 \/ Len(results) = 0
                 \/ Len(Deduplicate(results, 1, <<>>)) = 0
                 \/ Len(found) = 0
                 \/ Len(kept) = 0) => last.locations = <<>>)
    /\ [][Answered' => index' = index]_vars

\* A request for ${conf.db.lr} from folder b was answered with nothing: its
\* only top match, of folder a, was removed by the workspace isolation
C21_Witness ==
    /\ last.op = "provideDefinition"
    /\ last.interpolationPath = <<"conf", "db", "lr">>
    /\ last.uri = UriB
    /\ FindMatches(index, PathComponents(last.interpolationPath),
                   last.matchFilter) # <<>>
    /\ last.locations = <<>>

----------------------------------------------------------------------------
(* Change notifications in quick succession *)

\* The index updates of a document that are pending: the indexFile() calls
\* that a change handler of it awaits
PendingUpdates(uri) ==
    LET pending == {t \in BagToSet(tasks) :
                       t.uri = uri /\ t.via = "onFileChanged"}
    IN  BagCardinality([t \in pending |-> CopiesIn(t, tasks)])

\* A change notification of the document is queued behind the first one
NewerChangeQueued(uri) ==
    \E i \in 2..Len(events) : events[i] = Event("change", uri)

\* C22: change notifications of one document are coalesced.  At any time at
\* most one index update of a document is pending, and a change notification
\* that a newer one of the same document has followed is never the one that
\* starts a reparse.
C22_ChangesAreDebounced ==
    /\ [](\A uri \in Files : PendingUpdates(uri) <= 1)
    /\ [][\A uri \in Files :
            (OnFileChanged(uri) /\ ~ShouldExcludeFile(uri))
               => ~NewerChangeQueued(uri)]_vars

----------------------------------------------------------------------------
(* YamlStructureParser on a document that is written a line at a time: each *)
(* save of the document is followed by its change handler, run to the end.  *)
(* Here fs holds the lines of the document themselves.                      *)

MaxLines == 3      \* lines of the document

\* The lines a save can add: key lines at three indentations, of two keys,
\* with no value, a scalar value or nothing but an inline comment after the
\* colon, and the three kinds of line that match no key
LineKinds ==
    { KeyLine(n, k, v) : n \in {0, 2, 4},
                         k \in { <<"name">>, <<"value">> },
                         v \in { <<"">>, <<"1">>, <<"# note">> } }
    \cup {BlankLine, CommentLine, PlainLine}

\* The documents that are written: one inside the workspace, one outside
ParserFiles == {UriName, UriLoose}

InitParser ==
    /\ \E uri \in ParserFiles : fs = (uri :> <<>>)
    /\ watching = FALSE
    /\ events = <<>>
    /\ tasks = EmptyBag
    /\ scans = <<>>
    /\ index = NewIndex
    /\ inputs = 0
    /\ last = Step("none", NoUri, 0, 0)
    /\ activation = IndexerCreated
    /\ helpers = NoHelpers
    /\ lint = LintingNotActivated

\* parseFile of a document with these lines
ParseText(uri, lines) == ParseLines(uri, lines, 0, <<>>, <<>>)

\* The document gets one more line and is saved; onFileChanged removes its
\* old definitions and indexFile adds those of the new text
SaveLine(uri, line) ==
    /\ uri \in DOMAIN fs
    /\ inputs < MaxLines
    /\ inputs' = inputs + 1
    /\ fs' = [fs EXCEPT ![uri] = Append(@, line)]
    /\ index' = AddAll(RemoveFile(index, uri),
                       ParseText(uri, Append(fs[uri], line)), 1)
    /\ last' = Step("onFileChanged", uri, Len(FileDefs(index, uri)),
                    Len(ParseText(uri, Append(fs[uri], line))))
    /\ UNCHANGED <<helpers, lint, activation, watching, events, tasks, scans>>

NextParser == \E uri \in ParserFiles : \E line \in LineKinds : SaveLine(uri, line)

SpecParser == InitParser /\ [][NextParser]_vars

----------------------------------------------------------------------------
(* The parser's definitions against the text they come from *)

\* The numbers of the key lines of a text, counted from 1
KeyLineNumbers(lines) == {i \in 1..Len(lines) : lines[i].kind = "key"}

\* The elements of a set of numbers in ascending order
RECURSIVE Ascending(_)
Ascending(S) ==
    IF S = {} THEN <<>>
    ELSE LET least == CHOOSE x \in S : \A y \in S : x <= y
         IN  <<least>> \o Ascending(S \ {least})

\* A key line that opens a block: nothing follows its colon, or the opening
\* bracket of a flow collection
OpensBlock(line) == line.kind = "key" /\ line.value \in { <<"">>, <<"{">>, <<"[">> }

\* The keys that are open at key line i: key lines before it that open a
\* block, that no key line in between has closed by standing at the same
\* indentation or further left, and that stand left of line i
OpenAncestors(lines, i) ==
    LET open == {j \in 1..(i - 1) :
                    /\ OpensBlock(lines[j])
                    /\ lines[j].indent < lines[i].indent
                    /\ \A k \in (j + 1)..(i - 1) :
                          lines[k].kind = "key" => lines[k].indent > lines[j].indent}
        order == Ascending(open)
    IN  [n \in 1..Len(order) |-> lines[order[n]].key]

\* C23: the n-th definition of a document comes from its n-th key line, and
\* its logicalPath ends with the keys open at that line, outermost first,
\* followed by the key of the line; for the document a/b/name.yaml of the
\* workspace the logicalPath is [a, b] followed by exactly that.
C23_PathIsDirectoriesAncestorsKey ==
    \A uri \in DOMAIN fs :
        LET lines == fs[uri]
            defs  == FileDefs(index, uri)
            order == Ascending(KeyLineNumbers(lines))
        IN  /\ Len(defs) = Len(order)
            /\ \A n \in 1..Len(order) :
                  LET chain == OpenAncestors(lines, order[n])
                                  \o <<lines[order[n]].key>>
                      path  == defs[n].logicalPath
                  IN  /\ Len(path) >= Len(chain)
                      /\ SliceLast(path, Len(chain)) = chain
                      /\ uri = UriName => path = << <<"a">>, <<"b">> >> \o chain

\* name: / value: / name: 1 at the indentations 0, 2, 4 of a/b/name.yaml: the
\* third key has two open ancestors.  And with the third line back at
\* indentation 2 it has one: value was closed.
C23_Witness ==
    /\ UriName \in DOMAIN fs
    /\ Len(fs[UriName]) = 3
    /\ fs[UriName][1] = KeyLine(0, <<"name">>, <<"">>)
    /\ fs[UriName][2] = KeyLine(2, <<"value">>, <<"">>)
    /\ fs[UriName][3] = KeyLine(4, <<"name">>, <<"1">>)
    /\ FileDefs(index, UriName)[3].logicalPath
          = << <<"a">>, <<"b">>, <<"name">>, <<"value">>, <<"name">> >>

\* a/b/name.yaml holds the one line `value: 1`
OnlyValue ==
    /\ UriName \in DOMAIN fs
    /\ fs[UriName] = << KeyLine(0, <<"value">>, <<"1">>) >>

Match(d, level) == [definition |-> d, matchLevel |-> level]

\* C24 as stated: the key `value` of a/b/name.yaml has the logicalPath
\* [a, b, name, value]; the query [b, name, value] returns it at level 3 and
\* the query [value] at level 1.
C24_PathIncludesFileName ==
    OnlyValue =>
        LET d == FileDefs(index, UriName)[1]
        IN  /\ d.logicalPath = << <<"a">>, <<"b">>, <<"name">>, <<"value">> >>
            /\ FindMatches(index, << <<"b">>, <<"name">>, <<"value">> >>, "all")
                  = << Match(d, 3) >>
            /\ FindMatches(index, << <<"value">> >>, "all") = << Match(d, 1) >>

\* C24, amended: the name of the file is no part of the path.  The key
\* `value` of a/b/name.yaml has the logicalPath [a, b, value]; in every
\* filter mode the query [a, b, value] returns it at level 3 and the query
\* [value] returns the same definition at level 1; the query
\* [b, name, value] finds it by its key alone, at level 1.
C24_PathExcludesFileName ==
    OnlyValue =>
        LET d == FileDefs(index, UriName)[1]
        IN  /\ Len(FileDefs(index, UriName)) = 1
            /\ d.logicalPath = << <<"a">>, <<"b">>, <<"value">> >>
            /\ \A matchFilter \in MatchFilters :
                  /\ FindMatches(index, << <<"a">>, <<"b">>, <<"value">> >>,
                                 matchFilter) = << Match(d, 3) >>
                  /\ FindMatches(index, << <<"value">> >>, matchFilter)
                        = << Match(d, 1) >>
            /\ FindMatches(index, << <<"b">>, <<"name">>, <<"value">> >>, "all")
                  = << Match(d, 1) >>

C24_Witness ==
    /\ OnlyValue
    /\ last = Step("onFileChanged", UriName, 0, 1)
    /\ Len(FileDefs(index, UriName)) = 1

----------------------------------------------------------------------------
(* activate(): the check for Pylance, the wait for Pyright, the indexer and *)
(* its startup scan, then the registration of commands and providers.  The  *)
(* workspace is left untouched while the extension starts.                  *)

\* What activate() registers between `await yamlIndexer.initialize()` and its
\* next await, in this order
RegisteredByActivate ==
    {"hydralance.diagnostics", "hydralance.showLogs", "hydralance.refreshIndex",
     "HydraDefinitionProvider", "HydraCompletionItemProvider",
     "HydraHoverProvider", "HydraInterpolationDefinitionProvider"}

\* The call of activate(), with Pylance installed or not
InitActivate ==
    /\ fs \in [Files -> Texts \cup {Absent}]
    /\ watching = FALSE
    /\ events = <<>>
    /\ tasks = EmptyBag
    /\ scans = <<>>
    /\ index = NewIndex
    /\ inputs = 0
    /\ last = Step("activate", NoUri, 0, 0)
    /\ helpers = NoHelpers
    /\ lint = LintingNotActivated
    /\ \E pylance \in {TRUE, FALSE} :
          activation = [pc |-> "getExtension", pylance |-> pylance,
                        pyrightReady |-> FALSE, registered |-> {}]

\* vscode.extensions.getExtension('ms-python.vscode-pylance'): without it
\* activate() shows its warning and returns
GetExtension ==
    /\ activation.pc = "getExtension"
    /\ activation' = [activation EXCEPT
                         !.pc = IF activation.pylance THEN "testPyrightReady"
                                                      ELSE "returned"]
    /\ last' = Step("getExtension", NoUri, 0, 0)
    /\ UNCHANGED <<helpers, lint, fs, watching, events, tasks, scans, index, inputs>>

\* One round of `while (!(await testPyrightReady()))`
TestPyrightReady(ready) ==
    /\ activation.pc = "testPyrightReady"
    /\ activation' = [activation EXCEPT
                         !.pyrightReady = ready,
                         !.pc = IF ready THEN "initialize" ELSE "testPyrightReady"]
    /\ last' = Step("testPyrightReady", NoUri, 0, 0)
    /\ UNCHANGED <<helpers, lint, fs, watching, events, tasks, scans, index, inputs>>

\* activate() that does not await initialize(): it registers as soon as the
\* indexer has started its scan
RegisterNotAwaitingInitialize ==
    /\ activation.pc = "initialize"
    /\ watching
    /\ activation' = [activation EXCEPT !.pc = "active",
                                        !.registered = RegisteredByActivate]
    /\ last' = Step("register", NoUri, 0, 0)
    /\ UNCHANGED <<helpers, lint, fs, watching, events, tasks, scans, index, inputs>>

\* activate() resumes after `await yamlIndexer.initialize()`: the startup scan
\* has completed; it registers the commands and the providers
Register ==
    /\ activation.pc = "initialize"
    /\ Len(scans) >= 1 /\ scans[1] = "done"
    /\ activation' = [activation EXCEPT !.pc = "active",
                                        !.registered = RegisteredByActivate]
    /\ last' = Step("register", NoUri, 0, 0)
    /\ UNCHANGED <<helpers, lint, fs, watching, events, tasks, scans, index, inputs>>

NextActivate ==
    \/ GetExtension
    \/ \E ready \in {TRUE, FALSE} : TestPyrightReady(ready)
    \/ activation.pc = "initialize" /\ Initialize
    \/ \E s \in 1..Len(scans) : ScanWorkspace(s)
    \/ \E s \in 1..Len(scans) : ScanDone(s)
    \/ \E t \in BagToSet(tasks) : OpenTextDocument(t)
    \/ \E t \in BagToSet(tasks) : IndexFile(t)
    \/ Register
    \/ "hydralance.refreshIndex" \in activation.registered /\ RefreshIndex

SpecActivate == InitActivate /\ [][NextActivate]_vars

StartupScanCompleted == Len(scans) >= 1 /\ scans[1] = "done"

\* C26: whatever is registered was registered with Pylance installed, after
\* testPyrightReady() returned true and after the startup scan completed, and
\* the interpolation definition provider and the refresh command are
\* registered in that one step; the refresh command runs only once
\* registered.  Without Pylance activate() returns: no indexer, no watcher,
\* no scan, nothing registered.
C26_ActivationOrder ==
    /\ [](activation.registered # {} =>
             /\ activation.pylance
             /\ activation.pyrightReady
             /\ StartupScanCompleted)
    /\ [][activation'.registered # activation.registered =>
             /\ activation.pylance
             /\ activation.pyrightReady
             /\ StartupScanCompleted
             /\ activation.registered = {}
             /\ {"HydraInterpolationDefinitionProvider",
                 "hydralance.refreshIndex"} \subseteq activation'.registered
         ]_vars
    /\ [][last'.op = "refreshIndex" /\ last' # last =>
             "hydralance.refreshIndex" \in activation.registered]_vars
    /\ [](~activation.pylance =>
             /\ activation.pc \in {"getExtension", "returned"}
             /\ ~watching
             /\ scans = <<>>
             /\ index = NewIndex
             /\ activation.registered = {})

\* Everything is registered, over a workspace whose two documents the startup
\* scan has indexed
C26_Witness ==
    /\ activation.pc = "active"
    /\ activation.registered = RegisteredByActivate
    /\ last = Step("register", NoUri, 0, 0)
    /\ \A uri \in Files : Len(FileDefs(index, uri)) = 3

\* A value with its inline comment stripped: of `# note` nothing is left
StripComment(value) == IF value = <<"# note">> THEN <<"">> ELSE value

\* The lines of a text with the inline comments of their values stripped
StripComments(lines) ==
    [i \in 1..Len(lines) |-> [lines[i] EXCEPT !.value = StripComment(@)]]

\* C27: a key line is classified with its inline comment stripped.  A key
\* followed by nothing but an inline comment has an empty value and is open:
\* the logicalPath of every definition ends with the keys that are open at
\* its line when the comments are left out of account, followed by its key.
\* Stated of the documents of the workspace.
C27_InlineCommentIsStripped ==
    \A uri \in DOMAIN fs \cap {UriName} :
        LET lines == fs[uri]
            defs  == FileDefs(index, uri)
            order == Ascending(KeyLineNumbers(lines))
        IN  /\ Len(defs) = Len(order)
            /\ \A n \in 1..Len(order) :
                  LET chain == OpenAncestors(StripComments(lines), order[n])
                                  \o <<lines[order[n]].key>>
                      path  == defs[n].logicalPath
                  IN  /\ Len(path) >= Len(chain)
                      /\ SliceLast(path, Len(chain)) = chain

\* The logicalPaths of a list of definitions
LogicalPaths(defs) == [n \in 1..Len(defs) |-> defs[n].logicalPath]

\* The key lines of a text, the other lines left out
KeyLinesOnly(lines) == SelectSeq(lines, LAMBDA line : line.kind = "key")

\* C28: for every text the parser returns exactly one definition per key
\* line, in the order of the lines, each anchored at its line and at the key's
\* column.  Blank lines, comment lines and lines without a key give no
\* definition and leave the open keys as they are: the logicalPaths are those
\* of the same text with these lines left out.
C28_OneDefinitionPerKeyLine ==
    \A uri \in DOMAIN fs :
        LET lines == fs[uri]
            defs  == FileDefs(index, uri)
            order == Ascending(KeyLineNumbers(lines))
        IN  /\ defs = ParseText(uri, lines)
            /\ Len(defs) = Len(order)
            /\ \A n \in 1..Len(order) :
                  /\ defs[n].position = <<order[n] - 1, lines[order[n]].indent>>
                  /\ defs[n].fileUri = uri
                  /\ defs[n].logicalPath[Len(defs[n].logicalPath)]
                        = lines[order[n]].key
            /\ LogicalPaths(defs) = LogicalPaths(ParseText(uri, KeyLinesOnly(lines)))

\* name: / a line that is no key line / value: 1 further right: the second
\* definition, of the third line, is still nested under name
C28_Witness ==
    /\ UriName \in DOMAIN fs
    /\ Len(fs[UriName]) = 3
    /\ fs[UriName][1] = KeyLine(0, <<"name">>, <<"">>)
    /\ fs[UriName][2] \in {BlankLine, CommentLine, PlainLine}
    /\ fs[UriName][3] = KeyLine(2, <<"value">>, <<"1">>)
    /\ Len(FileDefs(index, UriName)) = 2
    /\ FileDefs(index, UriName)[2].position = <<2, 2>>
    /\ FileDefs(index, UriName)[2].logicalPath
          = << <<"a">>, <<"b">>, <<"name">>, <<"value">> >>

----------------------------------------------------------------------------
(* ReversePathIndex with two documents of one directory, db.yaml and       *)
(* model.yaml: their definitions have the same logicalPaths.               *)

SiblingCandidates ==
    UNION {Range(ParseFile(uri, text)) : uri \in SiblingFiles, text \in Texts}

NextSiblings ==
    \/ \E d \in SiblingCandidates : CallAddDefinition(d)
    \/ \E uri \in SiblingFiles : CallRemoveFile(uri)

SpecSiblings == InitIndex /\ [][NextSiblings]_vars

\* The entries of a bucket that other documents than uri own, in their order
OthersIn(entries, uri) == SelectSeq(entries, LAMBDA d : d.fileUri # uri)

\* C29: removeFile(D) leaves the fileIndex entry of every other document as
\* it is, creates no bucket, and leaves in every bucket exactly the
\* definitions of the other documents, in the order they had, also those
\* whose logicalPath equals that of a definition of D.
C29_RemoveFileFrame ==
    \A uri \in SiblingFiles :
        LET after == RemoveFile(index, uri)
        IN  /\ DOMAIN after.fileIndex = DOMAIN index.fileIndex \ {uri}
            /\ \A other \in DOMAIN after.fileIndex :
                  after.fileIndex[other] = index.fileIndex[other]
            /\ DOMAIN after.reverseIndex \subseteq DOMAIN index.reverseIndex
            /\ \A suffix \in DOMAIN index.reverseIndex :
                  MapGet(after.reverseIndex, suffix, <<>>)
                     = OthersIn(index.reverseIndex[suffix], uri)

\* The bucket of `lr` holds a definition of model.yaml between two of db.yaml,
\* the first of the same logicalPath [lr] as that of model.yaml
C29_Witness ==
    /\ <<"lr">> \in DOMAIN index.reverseIndex
    /\ LET entries == index.reverseIndex[<<"lr">>]
       IN  /\ Len(entries) = 3
           /\ entries[1].fileUri = UriDb
           /\ entries[2].fileUri = UriModel
           /\ entries[3].fileUri = UriDb
           /\ entries[1].logicalPath = entries[2].logicalPath
           /\ OthersIn(entries, UriModel) = <<entries[1], entries[3]>>

----------------------------------------------------------------------------
(* Key occurrences in the by-document store *)

\* C30: the entry of a document in fileIndex holds no key occurrence, the
\* document with an anchor position, more than once; so after a create
\* notification for a document that the startup scan has indexed, the
\* document's definitions are there once.
C30_NoDuplicateOccurrence ==
    \A uri \in DOMAIN index.fileIndex :
        LET defs == index.fileIndex[uri]
        IN  \A i, j \in 1..Len(defs) :
               i # j => defs[i].position # defs[j].position

----------------------------------------------------------------------------
(* The two maps of ReversePathIndex against each other *)

\* C31: fileIndex and reverseIndex hold the same definitions.  Every entry of
\* a bucket is listed in fileIndex under its own document, and the key of the
\* bucket is a suffix of its logicalPath; every entry of fileIndex is listed
\* under the document it names and stands in the bucket of each suffix of its
\* logicalPath, as many times as it is listed in fileIndex.
C31_MapsConsistent ==
    /\ \A suffix \in DOMAIN index.reverseIndex :
          \A d \in Range(index.reverseIndex[suffix]) :
             /\ d \in Range(FileDefs(index, d.fileUri))
             /\ suffix \in SuffixKeys(d.logicalPath)
    /\ \A uri \in DOMAIN index.fileIndex :
          \A d \in Range(index.fileIndex[uri]) :
             /\ d.fileUri = uri
             /\ \A suffix \in SuffixKeys(d.logicalPath) :
                   /\ suffix \in DOMAIN index.reverseIndex
                   /\ Count(index.reverseIndex[suffix], d)
                         = Count(index.fileIndex[uri], d)

\* removeFile has just removed the definitions of db.yaml; conf/db.yaml still
\* has one of three components, listed once and held in three buckets
C31_Witness ==
    /\ last.op = "removeFile" /\ last.uri = UriDb /\ last.removed >= 1
    /\ \E d \in Range(FileDefs(index, UriConfDb)) :
          /\ Len(d.logicalPath) = 3
          /\ Count(FileDefs(index, UriConfDb), d) = 1
          /\ Cardinality(KeysHolding(index, d)) = 3

\* The indentations of a stack grow strictly from bottom to top
StrictlyIncreasing(stack) ==
    \A i, j \in 1..Len(stack) : i < j => stack[i].indent < stack[j].indent

\* C32: after every line the parser's stack is strictly increasing in
\* indentation from bottom to top.  The ancestors in the logicalPath of a
\* definition are the keys of the stack as popped for its line: their
\* indentations increase strictly and are all smaller than that of the key,
\* whose own frame is not among them.
C32_StackStrictlyIncreasing ==
    \A uri \in DOMAIN fs :
        LET lines == fs[uri]
            defs  == FileDefs(index, uri)
            order == Ascending(KeyLineNumbers(lines))
        IN  /\ \A k \in 0..Len(lines) : StrictlyIncreasing(PathStackAfter(lines, k))
            /\ Len(defs) = Len(order)
            /\ \A n \in 1..Len(order) :
                  LET line      == lines[order[n]]
                      ancestors == PopStack(PathStackAfter(lines, order[n] - 1),
                                            line.indent)
                  IN  /\ defs[n].logicalPath
                            = GetFilePathComponents(uri) \o StackKeys(ancestors)
                                 \o <<line.key>>
                      /\ StrictlyIncreasing(ancestors)
                      /\ \A i \in 1..Len(ancestors) :
                            ancestors[i].indent < line.indent

\* name: at indentation 0, value: at 2, then name: at 2 again: the frame of
\* value is popped, the stack holds name (0) and name (2)
C32_Witness ==
    /\ UriName \in DOMAIN fs
    /\ Len(fs[UriName]) = 3
    /\ fs[UriName][1] = KeyLine(0, <<"name">>, <<"">>)
    /\ fs[UriName][2] = KeyLine(2, <<"value">>, <<"">>)
    /\ fs[UriName][3] = KeyLine(2, <<"name">>, <<"">>)
    /\ PathStackAfter(fs[UriName], 3)
          = << [key |-> <<"name">>, indent |-> 0],
               [key |-> <<"name">>, indent |-> 2] >>
    /\ FileDefs(index, UriName)[3].logicalPath
          = << <<"a">>, <<"b">>, <<"name">>, <<"name">> >>


\* The elements of sub are elements of seq, in the order of seq
SubSequence(sub, seq) == sub = SelectSeq(seq, LAMBDA r : r \in Range(sub))

\* C33: for every query the result under 'perfect matches only' is contained
\* in the result under 'top matches only', which is contained in the result
\* under 'all', each in the order of the larger one; and a non-empty perfect
\* result is the top result.
C33_FilterModesNested ==
    \A q \in QueryPaths :
        LET all     == FindMatches(index, q, "all")
            top     == FindMatches(index, q, "top matches only")
            perfect == FindMatches(index, q, "perfect matches only")
        IN  /\ SubSequence(perfect, top)
            /\ SubSequence(top, all)
            /\ perfect # <<>> => perfect = top

\* The three documents are indexed: ${conf.db.lr} has one perfect match, which
\* is the top result, among three matches, and ${db.lr} has three perfect
\* matches, all there are
C33_Witness ==
    LET q3 == << <<"conf">>, <<"db">>, <<"lr">> >>
        q2 == << <<"db">>, <<"lr">> >>
    IN  /\ last.op = "indexFile"
        /\ Len(FindMatches(index, q3, "all")) = 3
        /\ Len(FindMatches(index, q3, "perfect matches only")) = 1
        /\ FindMatches(index, q3, "top matches only")
              = FindMatches(index, q3, "perfect matches only")
        /\ Len(FindMatches(index, q2, "perfect matches only")) = 3

\* The orders in which the documents of S can be indexed
Orders(S) ==
    {o \in [1..Cardinality(S) -> S] : \A i, j \in DOMAIN o : o[i] = o[j] => i = j}

\* The index built by indexing the documents in the given order, each with
\* the definitions that idx lists for it
RECURSIVE IndexedInOrder(_, _, _, _)
IndexedInOrder(idx, order, k, built) ==
    IF k > Len(order) THEN built
    ELSE IndexedInOrder(idx, order, k + 1,
                        AddAll(built, FileDefs(idx, order[k]), 1))

\* C34: whatever the order in which the documents of the index are indexed,
\* every query returns, under every filter mode, the same sequence of
\* (document, position, matchLevel) as the index does.
C34_OutputIndependentOfIndexingOrder ==
    \A order \in Orders(DOMAIN index.fileIndex) :
        LET other == IndexedInOrder(index, order, 1, NewIndex)
        IN  \A q \in QueryPaths : \A mf \in MatchFilters :
                FindMatches(other, q, mf) = FindMatches(index, q, mf)

\* The three documents are indexed, a/conf/db.yaml last; indexed in the order
\* of their URIs they give other buckets, and both indexes answer ${db.lr}
\* with the three documents in the order of their URIs
C34_Witness ==
    LET q     == << <<"db">>, <<"lr">> >>
        other == IndexedInOrder(index, <<UriAConf, UriA, UriB>>, 1, NewIndex)
        found == FindMatches(index, q, "all")
    IN  /\ last = Step("indexFile", UriAConf, 0, 3)
        /\ DOMAIN index.fileIndex = {UriAConf, UriA, UriB}
        /\ other.reverseIndex # index.reverseIndex
        /\ [i \in 1..Len(found) |-> found[i].definition.fileUri]
              = <<UriAConf, UriA, UriB>>
        /\ FindMatches(other, q, "all") = found


----------------------------------------------------------------------------
(* PythonHelperDocument and the operations that construct one *)

MaxHelpers == 2    \* PythonHelperDocument constructions in a run

\* vscode.workspace.workspaceFolders of the two-folder workspace
WorkspaceFolders == <<"file:///a", "file:///b">>

\* determineWorkspaceFolder(documentUri): the folder of the document, else the
\* first workspace folder, else undefined
DetermineWorkspaceFolder(documentUri) ==
    IF documentUri # NoUri /\ GetWorkspaceFolder(documentUri) # NoFolder
        THEN GetWorkspaceFolder(documentUri)
    ELSE IF Len(WorkspaceFolders) > 0 THEN WorkspaceFolders[1]
    ELSE NoFolder

\* The shadow URI of the constructor, as the pair of its variable parts:
\* <folder>/hydralance/python_helpers/hydra_stub_<counter>.py, or
\* untitled:/hydralance/hydra_stub_<counter>.py without a workspace folder
ShadowUri(workspaceFolder, counter) ==
    IF workspaceFolder = NoFolder THEN <<"untitled:", counter>>
    ELSE <<workspaceFolder, counter>>

\* The number of lines of the document that lintDocument matches with
\* /_target_:\s*['"]?([\w\.]+)['"]?/ and for which it has Python code to try
TargetLines(document) ==
    CASE document = UriA     -> 1
      [] document = UriAConf -> 2
      [] OTHER               -> 0

\* What the command of an operation can resolve to.  The definition provider
\* command resolves to an array of Location or of LocationLink instances, or
\* to nothing; the completion command to a CompletionList or to nothing
CommandResults(operation) ==
    IF operation \in {"testPyrightReady", "lintDocument",
                      "provideDefinitionForTarget"}
        THEN {"undefined", "Location[]", "LocationLink[]"}
        ELSE {"undefined", "CompletionList"}

\* The statements between `await helper.cleanup()` and the end of the try
\* block throw: provideDefinitionForTarget logs locations[0].uri.fsPath, and a
\* LocationLink has targetUri and no uri.  The other operations read
\* locations.length or the items of the list and their labels only
ThrowsAfterCleanup(operation, result) ==
    operation = "provideDefinitionForTarget" /\ result = "LocationLink[]"

\* new PythonHelperDocument(documentUri) with helperCounter read and not
\* incremented
NewHelperSameCounter(h, operation, documentUri, line, run, version) ==
    [h EXCEPT !.instances = Append(@,
                  [shadowUri |-> ShadowUri(DetermineWorkspaceFolder(documentUri),
                                           h.helperCounter),
                   operation |-> operation, document |-> documentUri,
                   pc |-> "write", result |-> "none", cleanups |-> 0,
                   line |-> line, run |-> run, version |-> version])]

\* new PythonHelperDocument(documentUri) followed by the call of
\* helper.write(pythonCode), which suspends at `await applyEdit(edit)`.  line,
\* run and version are the locals of a lintDocument call: the _target_ line it
\* is at, its number among the calls, and the version of the text it read
NewHelper(h, operation, documentUri, line, run, version) ==
    [h EXCEPT !.helperCounter = @ + 1,
              !.instances = Append(@,
                  [shadowUri |-> ShadowUri(DetermineWorkspaceFolder(documentUri),
                                           h.helperCounter),
                   operation |-> operation, document |-> documentUri,
                   pc |-> "write", result |-> "none", cleanups |-> 0,
                   line |-> line, run |-> run, version |-> version])]

\* The step of a helper operation that ran last
HelperStep(op, n) ==
    [op |-> op, uri |-> helpers.instances[n].document, removed |-> 0,
     added |-> 0, instance |-> n]

\* The calls of the operations other than lintDocument, with the document
\* each is called for: testPyrightReady() has none
HelperCalls ==
    { <<"testPyrightReady", NoUri>>,
      <<"provideDefinitionForTarget", UriA>>,
      <<"getImportCompletions", UriB>>,
      <<"getParameterCompletionsViaCompletion", UriLoose>> }

\* testPyrightReady, provideDefinitionForTarget, getImportCompletions,
\* getParameterCompletionsViaCompletion: up to `await helper.write(pythonCode)`
StartOperation(operation, documentUri) ==
    /\ Len(helpers.instances) < MaxHelpers
    /\ helpers' = NewHelper(helpers, operation, documentUri, 0, 0, 0)
    /\ last' = Step(operation, documentUri, 0, 0)
    /\ UNCHANGED <<lint, activation, fs, watching, events, tasks, scans, index,
                   inputs>>

\* lintDocument(document, diagnostics) from its call to its first await, or to
\* its end when no line has a _target_.  l is the lint state it is called in
LintDocument(document, l) ==
    LET run     == l.runs + 1
        version == MapGet(l.version, document, 0)
        started == [l EXCEPT !.runs = run,
                             !.starts = MapSet(@, document,
                                               MapGet(@, document, 0) + 1)]
    IN  IF TargetLines(document) = 0
           THEN /\ lint' = [started EXCEPT !.diagnostics =
                               MapSet(@, document,
                                      [run |-> run, version |-> version])]
                /\ UNCHANGED helpers
           ELSE /\ Len(helpers.instances) < MaxHelpers
                /\ lint' = started
                /\ helpers' = NewHelper(helpers, "lintDocument", document, 1,
                                        run, version)

\* A call of lintDocument for a document with _target_ lines
CallLintDocument(document) ==
    /\ TargetLines(document) > 0
    /\ LintDocument(document, lint)
    /\ last' = Step("lintDocument", document, 0, 0)
    /\ UNCHANGED <<activation, fs, watching, events, tasks, scans, index, inputs>>

\* write() resumes: applyEdit has deleted and created the shadow document and
\* the operation goes on to `await openTextDocument(fileUri)`; or applyEdit
\* threw, write() rethrows and the catch block calls helper.cleanup()
WriteDone(n, ok) ==
    /\ helpers.instances[n].pc = "write"
    /\ helpers' = IF ok
          THEN [helpers EXCEPT !.shadow = @ \cup {helpers.instances[n].shadowUri},
                               !.instances[n].pc = "open"]
          ELSE [helpers EXCEPT !.instances[n].pc = "catch"]
    /\ last' = HelperStep(IF ok THEN "write" ELSE "write failed", n)
    /\ UNCHANGED <<lint, activation, fs, watching, events, tasks, scans, index,
                   inputs>>

\* openTextDocument resolves, which needs the shadow document to exist, and
\* the operation goes on to `await executeCommand(...)`; or it rejects
OpenDone(n, ok) ==
    /\ helpers.instances[n].pc = "open"
    /\ ok => helpers.instances[n].shadowUri \in helpers.shadow
    /\ helpers' = [helpers EXCEPT !.instances[n].pc =
                                      IF ok THEN "command" ELSE "catch"]
    /\ last' = HelperStep(IF ok THEN "open" ELSE "open failed", n)
    /\ UNCHANGED <<lint, activation, fs, watching, events, tasks, scans, index,
                   inputs>>

\* executeCommand resolves and the operation goes on to
\* `await helper.cleanup()` in the try block; or it rejects
CommandDone(n, result) ==
    /\ helpers.instances[n].pc = "command"
    /\ result \in CommandResults(helpers.instances[n].operation) \cup {"throws"}
    /\ helpers' = IF result = "throws"
          THEN [helpers EXCEPT !.instances[n].pc = "catch"]
          ELSE [helpers EXCEPT !.instances[n].pc = "cleanup",
                               !.instances[n].result = result]
    /\ last' = HelperStep(IF result = "throws" THEN "command failed"
                                                ELSE "command", n)
    /\ UNCHANGED <<lint, activation, fs, watching, events, tasks, scans, index,
                   inputs>>

\* The operation is through with the helper of instance n, in h: it returns,
\* or, in lintDocument, it goes to the next _target_ line and its helper, or
\* to diagnostics.set(document.uri, diags) after the last one
Leave(n, h) ==
    LET i   == h.instances[n]
        out == [h EXCEPT !.instances[n].pc = "returned",
                         !.instances[n].result = "none"]
    IN  IF i.operation = "lintDocument" /\ i.line < TargetLines(i.document)
           THEN /\ Len(h.instances) < MaxHelpers
                /\ helpers' = NewHelper(out, "lintDocument", i.document,
                                        i.line + 1, i.run, i.version)
                /\ UNCHANGED lint
        ELSE IF i.operation = "lintDocument"
           THEN /\ helpers' = out
                /\ lint' = [lint EXCEPT !.diagnostics =
                               MapSet(@, i.document,
                                      [run |-> i.run, version |-> i.version])]
        ELSE /\ helpers' = out
             /\ UNCHANGED lint

\* cleanup() of the try block resumes: the shadow document is deleted.  The
\* rest of the try block runs: it returns, or it throws and the catch block
\* calls helper.cleanup() again
CleanupDone(n) ==
    /\ helpers.instances[n].pc = "cleanup"
    /\ LET i       == helpers.instances[n]
           cleaned == [helpers EXCEPT !.shadow = @ \ {i.shadowUri},
                                      !.instances[n].cleanups = @ + 1]
       IN  IF ThrowsAfterCleanup(i.operation, i.result)
              THEN /\ helpers' = [cleaned EXCEPT !.instances[n].pc = "catch"]
                   /\ UNCHANGED lint
              ELSE Leave(n, cleaned)
    /\ last' = HelperStep("cleanup", n)
    /\ UNCHANGED <<activation, fs, watching, events, tasks, scans, index, inputs>>

\* cleanup() of the catch block resumes: the shadow document is deleted if it
\* exists, and the operation returns its empty result
CatchCleanupDone(n) ==
    /\ helpers.instances[n].pc = "catch"
    /\ Leave(n, [helpers EXCEPT !.shadow = @ \ {helpers.instances[n].shadowUri},
                                !.instances[n].cleanups = @ + 1])
    /\ last' = HelperStep("cleanup in catch", n)
    /\ UNCHANGED <<activation, fs, watching, events, tasks, scans, index, inputs>>

\* The instances, by their number
Instances == 1..Len(helpers.instances)

\* Every outcome of a command
Outcomes ==
    {"undefined", "Location[]", "LocationLink[]", "CompletionList", "throws"}

\* The extension is active in the two-folder workspace; no helper exists yet
InitHelper ==
    /\ fs = [uri \in RootFiles |-> Absent]
    /\ watching = FALSE
    /\ events = <<>>
    /\ tasks = EmptyBag
    /\ scans = <<>>
    /\ index = NewIndex
    /\ inputs = 0
    /\ activation = IndexerCreated
    /\ helpers = NoHelpers
    /\ lint = [LintingNotActivated EXCEPT !.registered = TRUE]
    /\ last = Step("activate", NoUri, 0, 0)

NextHelper ==
    \/ \E call \in HelperCalls : StartOperation(call[1], call[2])
    \/ \E document \in {UriA, UriAConf} : CallLintDocument(document)
    \/ \E n \in Instances : \E ok \in {TRUE, FALSE} : WriteDone(n, ok)
    \/ \E n \in Instances : \E ok \in {TRUE, FALSE} : OpenDone(n, ok)
    \/ \E n \in Instances : \E result \in Outcomes : CommandDone(n, result)
    \/ \E n \in Instances : CleanupDone(n)
    \/ \E n \in Instances : CatchCleanupDone(n)

SpecHelper == InitHelper /\ [][NextHelper]_vars


\* C35: when an operation is through with a helper, the helper's shadow
\* document has been cleaned up exactly once and does not exist, whichever of
\* write, open and the command failed or none; before that it has been cleaned
\* up at most once.
C35_CleanedUpExactlyOnce ==
    \A n \in 1..Len(helpers.instances) :
        LET i == helpers.instances[n]
        IN  IF i.pc = "returned"
               THEN i.cleanups = 1 /\ i.shadowUri \notin helpers.shadow
               ELSE i.cleanups <= 1

\* C36: no two PythonHelperDocument instances have the same shadow URI, the
\* counter has been incremented once per construction, and every shadow
\* document that exists is the one its own operation wrote and has not yet
\* cleaned up: no other operation has written or deleted it.
C36_ShadowUrisAreUnique ==
    /\ helpers.helperCounter = Len(helpers.instances)
    /\ \A m, n \in 1..Len(helpers.instances) :
          m # n => helpers.instances[m].shadowUri # helpers.instances[n].shadowUri
    /\ \A u \in helpers.shadow :
          \E n \in 1..Len(helpers.instances) :
              /\ helpers.instances[n].shadowUri = u
              /\ helpers.instances[n].pc \in {"open", "command", "cleanup",
                                               "catch"}
    /\ \A n \in 1..Len(helpers.instances) :
          helpers.instances[n].pc \in {"open", "command", "cleanup"}
              => helpers.instances[n].shadowUri \in helpers.shadow

\* lintDocument of a/db.yaml and testPyrightReady(), which falls back to the
\* first workspace folder, run at the same time in the folder a: both have
\* written their shadow documents, hydra_stub_0.py and hydra_stub_1.py
C36_Witness ==
    /\ Len(helpers.instances) = 2
    /\ helpers.instances[1].operation = "lintDocument"
    /\ helpers.instances[1].document = UriA
    /\ helpers.instances[2].operation = "testPyrightReady"
    /\ helpers.instances[1].pc = "command"
    /\ helpers.instances[2].pc = "command"
    /\ helpers.instances[1].shadowUri = <<"file:///a", 0>>
    /\ helpers.instances[2].shadowUri = <<"file:///a", 1>>
    /\ helpers.shadow = {<<"file:///a", 0>>, <<"file:///a", 1>>}


----------------------------------------------------------------------------
(* activateHydraLinting: the debounce of lintDocument *)

MaxTimers == 3     \* setTimeout calls of triggerLint in a run

\* The YAML documents that are opened, changed and closed: a/db.yaml has one
\* _target_ line, b/db.yaml has none
LintDocs == {UriA, UriB}

\* The delay of setTimeout(..., 2000), in seconds
DebounceSeconds == 2

\* triggerLint without its clearTimeout
TriggerLintKeepsTimer(l, document) ==
    LET id == l.timerCount + 1
    IN  [l EXCEPT !.timers = @ \cup {[id |-> id, uri |-> document,
                                      due |-> DebounceSeconds]},
                  !.debounceTimers = MapSet(@, document, id),
                  !.timerCount = id,
                  !.quiet = MapSet(@, document, 0),
                  !.starts = MapSet(@, document, 0)]

\* triggerLint(document) of a document whose languageId is 'yaml', on the lint
\* state l.  A timer is [id, uri, due]: due is the number of seconds left.
\* quiet and starts record, per document, the seconds since this call (up to
\* DebounceSeconds) and the calls of lintDocument since this call
TriggerLint(l, document) ==
    LET id == l.timerCount + 1
        cleared == IF document \in DOMAIN l.debounceTimers
                      THEN {t \in l.timers : t.id # l.debounceTimers[document]}
                      ELSE l.timers
    IN  [l EXCEPT !.timers = cleared \cup {[id |-> id, uri |-> document,
                                            due |-> DebounceSeconds]},
                  !.debounceTimers = MapSet(@, document, id),
                  !.timerCount = id,
                  !.quiet = MapSet(@, document, 0),
                  !.starts = MapSet(@, document, 0)]

\* vscode.workspace.textDocuments.forEach(doc => triggerLint(doc))
RECURSIVE TriggerLintAll(_, _)
TriggerLintAll(l, documents) ==
    IF documents = <<>> THEN l
    ELSE TriggerLintAll(TriggerLint(l, Head(documents)), Tail(documents))

\* vscode.workspace.textDocuments: the open documents
TextDocuments(open) ==
    SelectSeq(<<UriA, UriB>>, LAMBDA document : document \in open)

\* activateHydraLinting(context)
ActivateHydraLinting ==
    /\ ~lint.registered
    /\ lint' = TriggerLintAll([lint EXCEPT !.registered = TRUE],
                              TextDocuments(lint.open))
    /\ last' = Step("activateHydraLinting", NoUri, 0, 0)
    /\ UNCHANGED <<helpers, activation, fs, watching, events, tasks, scans,
                   index, inputs>>

\* onDidOpenTextDocument(triggerLint)
OnDidOpenTextDocument(document) ==
    /\ lint.registered
    /\ document \notin lint.open
    /\ lint.timerCount < MaxTimers
    /\ lint' = TriggerLint([lint EXCEPT !.open = @ \cup {document}], document)
    /\ last' = Step("onDidOpenTextDocument", document, 0, 0)
    /\ UNCHANGED <<helpers, activation, fs, watching, events, tasks, scans,
                   index, inputs>>

\* onDidChangeTextDocument(e => triggerLint(e.document)): the text of the
\* open document has changed
OnDidChangeTextDocument(document) ==
    /\ lint.registered
    /\ document \in lint.open
    /\ lint.timerCount < MaxTimers
    /\ lint' = TriggerLint([lint EXCEPT !.version =
                               MapSet(@, document, MapGet(@, document, 0) + 1)],
                           document)
    /\ last' = Step("onDidChangeTextDocument", document, 0, 0)
    /\ UNCHANGED <<helpers, activation, fs, watching, events, tasks, scans,
                   index, inputs>>

\* onDidCloseTextDocument(doc => diagnostics.delete(doc.uri))
OnDidCloseTextDocument(document) ==
    /\ lint.registered
    /\ document \in lint.open
    /\ lint' = [lint EXCEPT !.open = @ \ {document},
                            !.diagnostics = MapDelete(@, document)]
    /\ last' = Step("onDidCloseTextDocument", document, 0, 0)
    /\ UNCHANGED <<helpers, activation, fs, watching, events, tasks, scans,
                   index, inputs>>

\* One second passes.  A timer that is due need not have fired yet
Tick ==
    /\ \/ \E t \in lint.timers : t.due > 0
       \/ \E document \in DOMAIN lint.quiet :
              lint.quiet[document] < DebounceSeconds
    /\ lint' = [lint EXCEPT
          !.timers = {[t EXCEPT !.due = IF @ > 0 THEN @ - 1 ELSE 0] : t \in @},
          !.quiet = [document \in DOMAIN @ |->
                        IF @[document] < DebounceSeconds THEN @[document] + 1
                                                         ELSE @[document]]]
    /\ last' = Step("tick", NoUri, 0, 0)
    /\ UNCHANGED <<helpers, activation, fs, watching, events, tasks, scans,
                   index, inputs>>

\* The callback of setTimeout: lintDocument(document, diagnostics), then
\* debounceTimers.delete(uriStr)
TimerFires(t) ==
    /\ t \in lint.timers
    /\ t.due = 0
    /\ LintDocument(t.uri, [lint EXCEPT !.timers = @ \ {t},
                                        !.debounceTimers = MapDelete(@, t.uri)])
    /\ last' = Step("lintDocument", t.uri, 0, 0)
    /\ UNCHANGED <<activation, fs, watching, events, tasks, scans, index, inputs>>

\* The call of activateHydraLinting, with any of the documents open
InitLint ==
    /\ fs = [uri \in RootFiles |-> Absent]
    /\ watching = FALSE
    /\ events = <<>>
    /\ tasks = EmptyBag
    /\ scans = <<>>
    /\ index = NewIndex
    /\ inputs = 0
    /\ activation = IndexerCreated
    /\ helpers = NoHelpers
    /\ \E open \in SUBSET LintDocs :
          lint = [LintingNotActivated EXCEPT !.open = open]
    /\ last = Step("activate", NoUri, 0, 0)

NextLint ==
    \/ ActivateHydraLinting
    \/ \E document \in LintDocs : OnDidOpenTextDocument(document)
    \/ \E document \in LintDocs : OnDidChangeTextDocument(document)
    \/ \E document \in LintDocs : OnDidCloseTextDocument(document)
    \/ Tick
    \/ \E t \in lint.timers : TimerFires(t)
    \/ \E n \in Instances : \E ok \in {TRUE, FALSE} : WriteDone(n, ok)
    \/ \E n \in Instances : \E ok \in {TRUE, FALSE} : OpenDone(n, ok)
    \/ \E n \in Instances : \E result \in Outcomes : CommandDone(n, result)
    \/ \E n \in Instances : CleanupDone(n)
    \/ \E n \in Instances : CatchCleanupDone(n)

SpecLint == InitLint /\ [][NextLint]_vars


\* The pending timers of a document in the lint state l
TimersOf(l, uri) == {t \in l.timers : t.uri = uri}

\* At most one timer is pending per document, the one debounceTimers names;
\* it was set DebounceSeconds after the last open or change event of the
\* document and lintDocument has not been called since that event; once it
\* has fired, lintDocument has been called exactly once since that event,
\* DebounceSeconds or more after it
OnePendingTimer ==
    \A uri \in LintDocs :
        /\ Cardinality(TimersOf(lint, uri)) <= 1
        /\ \A t \in TimersOf(lint, uri) :
              /\ uri \in DOMAIN lint.debounceTimers
              /\ lint.debounceTimers[uri] = t.id
              /\ t.due = DebounceSeconds - lint.quiet[uri]
              /\ lint.starts[uri] = 0
        /\ (uri \in DOMAIN lint.quiet /\ TimersOf(lint, uri) = {}) =>
              /\ uri \notin DOMAIN lint.debounceTimers
              /\ lint.starts[uri] = 1
              /\ lint.quiet[uri] = DebounceSeconds

\* An open or change event of a document replaces the timer of the document
\* by a new one of DebounceSeconds and leaves the timers of the others as
\* they are
EventRestartsOwnTimer ==
    (lint.registered /\ lint'.timerCount # lint.timerCount) =>
        /\ last'.uri \in LintDocs
        /\ TimersOf(lint', last'.uri)
              = {[id |-> lint'.timerCount, uri |-> last'.uri,
                  due |-> DebounceSeconds]}
        /\ \A uri \in LintDocs \ {last'.uri} :
              TimersOf(lint', uri) = TimersOf(lint, uri)

\* lintDocument starts only from the timer of its document, DebounceSeconds
\* or more after the last event of that document, and takes the timer away
LintStartsFromTimer ==
    lint'.runs # lint.runs =>
        /\ lint'.runs = lint.runs + 1
        /\ \E t \in TimersOf(lint, last'.uri) :
              /\ t.due = 0
              /\ lint.quiet[t.uri] = DebounceSeconds
        /\ TimersOf(lint', last'.uri) = {}
        /\ \A uri \in LintDocs \ {last'.uri} :
              TimersOf(lint', uri) = TimersOf(lint, uri)

\* C37: at most one lint timer is pending per document; an open or change
\* event of a document cancels that document's timer and sets a new one of
\* 2 seconds, leaving the timers of other documents alone; lintDocument is
\* started by a timer only, 2 seconds or more after the last event of its
\* document, and exactly once per burst of events.
C37_LintDebounce ==
    /\ []OnePendingTimer
    /\ [][EventRestartsOwnTimer]_vars
    /\ [][LintStartsFromTimer]_vars

\* a/db.yaml took two events and b/db.yaml one; the timer of a/db.yaml has
\* just fired and started lintDocument, the one call since its last event,
\* while the timer of b/db.yaml is pending
C37_Witness ==
    /\ last = Step("lintDocument", UriA, 0, 0)
    /\ lint.timerCount = 3
    /\ lint.debounceTimers = (UriB :> 3)
    /\ lint.runs = 1
    /\ lint.starts[UriA] = 1
    /\ Cardinality(TimersOf(lint, UriB)) = 1
    /\ MapGet(lint.version, UriA, 0) = 1

\* C38: a closed document has no diagnostics, whatever timer was pending and
\* whatever lintDocument call was in flight when it was closed; and the
\* diagnostics of a document are never those of a lintDocument call older than
\* one that has already set them.
C38_ClosedStaysCleared ==
    /\ \A uri \in LintDocs :
          (lint.registered /\ uri \notin lint.open)
              => uri \notin DOMAIN lint.diagnostics
    /\ \A uri \in DOMAIN lint.diagnostics :
          \A n \in Instances :
              LET i == helpers.instances[n]
              IN  (/\ i.operation = "lintDocument"
                   /\ i.document = uri
                   /\ i.pc = "returned"
                   /\ i.line = TargetLines(uri))
                      => i.run <= lint.diagnostics[uri].run

====
